---------------------------- MODULE Spec2Model ----------------------------
(***************************************************************************)
(* State-machine model of the RL-A2A coordination core.                    *)
(*                                                                         *)
(*   SpecA2A  : the A2A task engine (tasks/send, tasks/status,             *)
(*              tasks/cancel, update_task_status) on top of the message     *)
(*              router, the agent registry and the event bus.              *)
(*   SpecHITL : the approval queue and the HITL middleware                 *)
(*              (process_message / _wait_for_approval) with operator       *)
(*              approve / reject, the expiry sweep and a wall clock.       *)
(*                                                                         *)
(* Time is an integer number of seconds (datetime.now()).  uuid.uuid4() is *)
(* a counter that never repeats.  Python's None is the string "None" for   *)
(* identifiers and texts and NoTime (-1) for timestamps.                   *)
(***************************************************************************)
EXTENDS Integers, Sequences, FiniteSets, TLC

VARIABLES
    now,            \* datetime.now(), in seconds
    uuids,          \* number of uuid.uuid4() values handed out so far
    event_history,  \* EventBus._event_history
    ready,          \* event loop: emits scheduled by asyncio.create_task
    registry_bus,   \* AgentRegistry._event_bus is set (built with an event bus)
    agents,         \* AgentRegistry._agents  (id -> agent record)
    agents_order,   \* the keys of AgentRegistry._agents in insertion order
    agents_by_did,  \* AgentRegistry._agents_by_did  (did -> agent record)
    manifests,      \* ManifestService.storage: the manifests in insertion order
    strategy,       \* CostAwareRouter.strategy
    message_router, \* A2AHandler.message_router: what the handler was built with
    task_store,     \* A2AHandler.task_store  (task_id -> task record)
    queue,          \* ApprovalQueue._queue   (request_id -> ApprovalRequest)
    hitl_config,    \* Config.HITL_TIMEOUT_SECONDS, ApprovalQueue/HITLMiddleware arguments
    calls,          \* the process_message calls that were gated, waiting or returned
    update_buffer,  \* FRLAggregator._update_buffer  (agent_id -> list of updates)
    q_tables,       \* QLearning.q_tables  (agent_id -> matrix)
    state_spaces,   \* QLearning.state_spaces  (agent_id -> state -> index)
    action_spaces,  \* QLearning.action_spaces  (agent_id -> action -> index)
    q_updates,      \* number of update_q_value calls made so far
    subscribers,    \* EventBus._subscribers  (event type -> list of callbacks)
    emits,          \* the emit / emit_sync calls made so far, in the order made
    received,       \* the callback bodies that ran, in the order they ran
    addressed,      \* the messages in the order the router set receiver_id
    last            \* the last finished operation and what it returned

vars == <<now, uuids, event_history, ready, registry_bus, agents, agents_order,
          agents_by_did, manifests, strategy, message_router, task_store, queue,
          hitl_config, calls, update_buffer, q_tables, state_spaces, action_spaces,
          q_updates, subscribers, emits, received, addressed, last>>

a2aVars  == <<message_router, task_store>>
regVars  == <<registry_bus, agents, agents_order, agents_by_did, ready>>
costVars == <<manifests, strategy>>
hitlVars == <<queue, hitl_config, calls>>
learnVars == <<update_buffer, q_tables, state_spaces, action_spaces, q_updates>>
busVars == <<subscribers, emits, received, addressed>>

-----------------------------------------------------------------------------
(* Bounds of the model *)

MaxTime == 3
MaxTasks == 1
MaxEvents == 3
MaxCalls == 1
MaxManifests == 2
MaxBatch == 2
MaxUpdates == 2
MaxQUpdates == 2
MaxMessages == 1
MaxRing == 1002
MaxEmits == 2
MaxRoutes == 2
MaxSubscriptions == 2

None == "None"
NoTime == -1

\* The value of last after construction: no operation has returned yet
NoOperation == [op |-> "init", id |-> 0, ret |-> None]

AgentIds == {"u1"}
\* update_task_status arguments result and error
Results == {None, "ok"}
Errors == {None, "error"}
\* tasks/send arguments (priority, sender_id); the priority is out of range
SendInputs == {<<5, "u0">>}

-----------------------------------------------------------------------------
(* Shared primitives *)

\* EventBus._max_history
max_history == 1000

\* A history that is cut to its first max_history entries
emit_keeping_oldest(history, event) ==
    LET h == Append(history, event)
    IN  IF Len(h) > max_history THEN SubSeq(h, 1, max_history) ELSE h

\* EventBus.emit with no subscriber registered: the event is appended to the
\* history and the history is cut to its last max_history entries.
emit(history, event) ==
    LET h == Append(history, event)
    IN  IF Len(h) > max_history
        THEN SubSeq(h, Len(h) - max_history + 1, Len(h))
        ELSE h

Event(type, payload) == [event_type |-> type, payload |-> payload]

\* The wall clock advances (up to the bound of the specification).
Tick(limit) ==
    /\ now < limit
    /\ now' = now + 1
    /\ UNCHANGED <<uuids, event_history, regVars, costVars, a2aVars, hitlVars, last,
                   learnVars, busVars>>

-----------------------------------------------------------------------------
(* AgentRegistry *)

\* A registry that schedules every emit twice
schedule_emit_twice(queued, event) ==
    IF registry_bus THEN Append(Append(queued, event), event) ELSE queued

\* asyncio.create_task(self._event_bus.emit(event)), done only when the
\* registry was built with an event bus: the emit is queued on the event loop.
schedule_emit(queued, event) ==
    IF registry_bus THEN Append(queued, event) ELSE queued

AgentStatus == {"active", "inactive", "pending", "suspended"}

\* Config.MAX_AGENTS = int(os.getenv("MAX_AGENTS", "1000")), with MAX_AGENTS=1
\* in the environment.  No operation of the registry reads it.
MAX_AGENTS == 1

\* Agent(id=..., name=...) with the defaults of the dataclass
NewAgent(id) == [id |-> id, did |-> None, status |-> "pending", last_active |-> now]

\* AgentRegistry.register
register(agent) ==
    /\ Len(event_history) + Len(ready) < MaxEvents
    /\ agents' = [a \in DOMAIN agents \cup {agent.id} |->
                     IF a = agent.id THEN agent ELSE agents[a]]
    /\ agents_order' = IF agent.id \in DOMAIN agents THEN agents_order
                       ELSE Append(agents_order, agent.id)
    /\ agents_by_did' =
           IF agent.did # None
           THEN [d \in DOMAIN agents_by_did \cup {agent.did} |->
                     IF d = agent.did THEN agent ELSE agents_by_did[d]]
           ELSE agents_by_did
    /\ ready' = schedule_emit(ready, Event("agent.created",
                                     [agent_id |-> agent.id, agent |-> agent]))
    /\ last' = [op |-> "register", id |-> agent.id, ret |-> None]
    /\ UNCHANGED <<now, uuids, event_history, registry_bus, costVars, a2aVars, hitlVars,
                   learnVars, busVars>>

\* AgentRegistry.unregister
unregister(id) ==
    /\ Len(event_history) + Len(ready) < MaxEvents
    /\ IF id \in DOMAIN agents
       THEN /\ agents' = [a \in DOMAIN agents \ {id} |-> agents[a]]
            /\ agents_order' = SelectSeq(agents_order, LAMBDA a : a # id)
            /\ agents_by_did' = [d \in DOMAIN agents_by_did \ {agents[id].did} |->
                                    agents_by_did[d]]
            /\ ready' = schedule_emit(ready, Event("agent.deleted", [agent_id |-> id]))
            /\ last' = [op |-> "unregister", id |-> id, ret |-> "True"]
       ELSE /\ UNCHANGED <<agents, agents_order, agents_by_did, ready>>
            /\ last' = [op |-> "unregister", id |-> id, ret |-> "False"]
    /\ UNCHANGED <<now, uuids, event_history, registry_bus, costVars, a2aVars, hitlVars,
                   learnVars, busVars>>

\* The loop of update over the items of updates followed by
\* agent.update_last_active(): a key the agent has as an attribute is set,
\* any other key is skipped
apply_updates(agent, updates) ==
    [k \in DOMAIN agent |->
        IF k = "last_active" THEN now
        ELSE IF k \in DOMAIN updates THEN updates[k] ELSE agent[k]]

\* AgentRegistry.update. The maps hold references: an entry of _agents_by_did
\* that is the same agent object changes with it.
update(agent_id, updates) ==
    /\ Len(event_history) + Len(ready) < MaxEvents
    /\ IF agent_id \in DOMAIN agents
       THEN /\ agents' = [agents EXCEPT ![agent_id] = apply_updates(@, updates)]
            /\ agents_by_did' =
                   [d \in DOMAIN agents_by_did |->
                       IF agents_by_did[d] = agents[agent_id]
                       THEN apply_updates(agents[agent_id], updates)
                       ELSE agents_by_did[d]]
            /\ ready' = schedule_emit(ready, Event("agent.updated",
                                 [agent_id |-> agent_id, updates |-> updates]))
            /\ last' = [op |-> "update", id |-> agent_id, ret |-> "True"]
       ELSE /\ UNCHANGED <<agents, agents_by_did, ready>>
            /\ last' = [op |-> "update", id |-> agent_id, ret |-> "False"]
    /\ UNCHANGED <<now, uuids, event_history, registry_bus, agents_order, costVars,
                   a2aVars, hitlVars, learnVars, busVars>>

\* AgentRegistry.list_all(): the ids of the agents it returns, in dict order
list_all == agents_order

\* The event loop runs the oldest emit that the registry scheduled.
run_scheduled_emit ==
    /\ ready # <<>>
    /\ event_history' = emit(event_history, Head(ready))
    /\ ready' = Tail(ready)
    /\ UNCHANGED <<now, uuids, registry_bus, agents, agents_order, agents_by_did,
                   costVars, a2aVars, hitlVars, last, learnVars, busVars>>

\* Agents handed to register: two identifiers, one with a DID
RegistryAgents ==
    { [id |-> "u1", did |-> None, status |-> "pending", last_active |-> 0],
      [id |-> "u2", did |-> "did:u2", status |-> "active", last_active |-> 0] }

RegistryAgentIds == {"u1", "u2"}

\* The updates handed to update: a declared attribute and one that Agent
\* does not have
UpdateInputs == { [status |-> "suspended"], [nickname |-> "x"] }

\* create_app: the registry is built with the event bus
InitRegistry ==
    /\ now = 0
    /\ uuids = 0
    /\ event_history = <<>>
    /\ ready = <<>>
    /\ registry_bus = TRUE
    /\ agents = <<>>
    /\ agents_order = <<>>
    /\ agents_by_did = <<>>
    /\ manifests = <<>>
    /\ strategy = "best_value"
    /\ message_router = "MessageRouter"
    /\ task_store = [t \in {} |-> None]
    /\ queue = [r \in {} |-> None]
    /\ hitl_config = [HITL_TIMEOUT_SECONDS |-> 0, timeout_seconds |-> 0,
                      auto_approve |-> FALSE]
    /\ calls = <<>>
    /\ update_buffer = <<>>
    /\ q_tables = <<>>
    /\ state_spaces = <<>>
    /\ action_spaces = <<>>
    /\ q_updates = 0
    /\ subscribers = <<>>
    /\ emits = <<>>
    /\ received = <<>>
    /\ addressed = <<>>
    /\ last = NoOperation

NextRegistry ==
    \/ \E a \in RegistryAgents : register(a)
    \/ \E a \in RegistryAgentIds, u \in UpdateInputs : update(a, u)
    \/ \E a \in RegistryAgentIds : unregister(a)
    \/ run_scheduled_emit
    \/ Tick(1)

SpecRegistry == InitRegistry /\ [][NextRegistry]_vars

\* Agents handed to register when the indexes are looked at: one without a
\* DID and two that carry the same DID
IndexAgents ==
    { [id |-> "u1", did |-> None, status |-> "pending", last_active |-> 0],
      [id |-> "u2", did |-> "did:u2", status |-> "active", last_active |-> 0],
      [id |-> "u3", did |-> "did:u2", status |-> "inactive", last_active |-> 0] }

IndexAgentIds == {"u1", "u2", "u3"}

\* Patches that name the identifier or the DID; both are attributes of Agent
IndexUpdateInputs == { [id |-> "u2"], [did |-> "did:x"] }

\* AgentRegistry(): a registry without an event bus
InitIndex ==
    /\ now = 0
    /\ uuids = 0
    /\ event_history = <<>>
    /\ ready = <<>>
    /\ registry_bus = FALSE
    /\ agents = <<>>
    /\ agents_order = <<>>
    /\ agents_by_did = <<>>
    /\ manifests = <<>>
    /\ strategy = "best_value"
    /\ message_router = "MessageRouter"
    /\ task_store = [t \in {} |-> None]
    /\ queue = [r \in {} |-> None]
    /\ hitl_config = [HITL_TIMEOUT_SECONDS |-> 0, timeout_seconds |-> 0,
                      auto_approve |-> FALSE]
    /\ calls = <<>>
    /\ update_buffer = <<>>
    /\ q_tables = <<>>
    /\ state_spaces = <<>>
    /\ action_spaces = <<>>
    /\ q_updates = 0
    /\ subscribers = <<>>
    /\ emits = <<>>
    /\ received = <<>>
    /\ addressed = <<>>
    /\ last = NoOperation

NextIndex ==
    \/ \E a \in IndexAgents : register(a)
    \/ \E a \in IndexAgentIds, u \in IndexUpdateInputs : update(a, u)
    \/ \E a \in IndexAgentIds : unregister(a)

SpecIndex == InitIndex /\ [][NextIndex]_vars

-----------------------------------------------------------------------------
(* ManifestService *)

\* The position of an agent's manifest in the storage, 0 if it has none
manifest_index(agent_id) ==
    IF \E k \in 1..Len(manifests) : manifests[k].agent_id = agent_id
    THEN CHOOSE k \in 1..Len(manifests) : manifests[k].agent_id = agent_id
    ELSE 0

\* ManifestService.create_manifest: storage.set keeps the place of a key that
\* is already stored and puts a new key last.
create_manifest(agent_id, capabilities, metrics) ==
    /\ manifest_index(agent_id) # 0 \/ Len(manifests) < MaxManifests
    /\ LET manifest == [agent_id |-> agent_id, capabilities |-> capabilities,
                        metrics |-> metrics]
           k == manifest_index(agent_id)
       IN  /\ manifests' = IF k # 0 THEN [manifests EXCEPT ![k] = manifest]
                           ELSE Append(manifests, manifest)
           /\ last' = [op |-> "create_manifest", id |-> agent_id, ret |-> manifest]
    /\ UNCHANGED <<now, uuids, event_history, regVars, strategy, a2aVars, hitlVars,
                   learnVars, busVars>>

\* ManifestService.delete_manifest
delete_manifest(agent_id) ==
    /\ manifests' = SelectSeq(manifests, LAMBDA m : m.agent_id # agent_id)
    /\ last' = [op |-> "delete_manifest", id |-> agent_id,
                ret |-> IF manifest_index(agent_id) # 0 THEN "True" ELSE "False"]
    /\ UNCHANGED <<now, uuids, event_history, regVars, strategy, a2aVars, hitlVars,
                   learnVars, busVars>>

\* ManifestService.find_agents_by_capability
find_agents_by_capability(capability) ==
    SelectSeq(manifests, LAMBDA m : capability \in m.capabilities)

-----------------------------------------------------------------------------
(* CostAwareRouter *)
(* cost_rate and success_rate are counted in hundredths, latency_ms in      *)
(* milliseconds; a score is 40000 times the score the code computes.        *)

RoutingStrategy == {"lowest_cost", "lowest_latency", "best_value", "highest_success"}

\* float('inf')
Inf == 1000000
\* max_cost / max_latency not supplied (None)
NoLimit == -1

\* metrics.get(key, default)
metric(manifest, key, default) ==
    IF key \in DOMAIN manifest.metrics THEN manifest.metrics[key] ELSE default

\* Python truth value of an optional number: None and 0 are false
truthy(x) == x # NoLimit /\ x # 0

\* The body of the constraint loop: the manifest is kept
within_constraints(manifest, max_cost, max_latency) ==
    LET cost == metric(manifest, "cost_rate", Inf)
        latency == metric(manifest, "latency_ms", Inf)
    IN  /\ ~(truthy(max_cost) /\ cost > max_cost)
        /\ ~(truthy(max_latency) /\ latency > max_latency)

\* "Apply constraints" of select_agent
apply_constraints(candidates, max_cost, max_latency) ==
    IF truthy(max_cost) \/ truthy(max_latency)
    THEN SelectSeq(candidates, LAMBDA m : within_constraints(m, max_cost, max_latency))
    ELSE candidates

\* Python min(candidates, key=...) on the keys of the candidates: the index
\* of the first smallest key
first_min(keys) ==
    CHOOSE k \in 1..Len(keys) :
        /\ \A j \in 1..Len(keys) : keys[k] <= keys[j]
        /\ \A j \in 1..(k - 1) : keys[j] > keys[k]

\* Python max(candidates, key=...) on the keys of the candidates: the index
\* of the first largest key
first_max(keys) ==
    CHOOSE k \in 1..Len(keys) :
        /\ \A j \in 1..Len(keys) : keys[k] >= keys[j]
        /\ \A j \in 1..(k - 1) : keys[j] < keys[k]

\* The score of _select_best_value:
\* success * 0.5 - (cost * 0.25 + latency / 10000.0 * 0.25)
score(manifest) ==
    LET cost == metric(manifest, "cost_rate", 100)
        latency == metric(manifest, "latency_ms", 1000)
        success == metric(manifest, "success_rate", 50)
    IN  200 * success - (100 * cost + latency)

\* CostAwareRouter._select_best_value: the first candidate whose score is
\* greater than every score before it and not less than any after it
select_best_value(candidates) ==
    candidates[first_max([k \in 1..Len(candidates) |-> score(candidates[k])])]

cost_rate_key(manifest) == metric(manifest, "cost_rate", Inf)
latency_ms_key(manifest) == metric(manifest, "latency_ms", Inf)
success_rate_key(manifest) == metric(manifest, "success_rate", 0)

\* CostAwareRouter.select_agent; strategy_arg, max_cost and max_latency may
\* be None / NoLimit
select_agent(capability, strategy_arg, max_cost, max_latency) ==
    LET strat == IF strategy_arg # None THEN strategy_arg ELSE strategy
        found == find_agents_by_capability(capability)
        candidates == apply_constraints(found, max_cost, max_latency)
        keys(key(_)) == [k \in 1..Len(candidates) |-> key(candidates[k])]
        selected == IF strat = "lowest_cost"
                    THEN candidates[first_min(keys(cost_rate_key))]
                    ELSE IF strat = "lowest_latency"
                    THEN candidates[first_min(keys(latency_ms_key))]
                    ELSE IF strat = "highest_success"
                    THEN candidates[first_max(keys(success_rate_key))]
                    ELSE select_best_value(candidates)
    IN  IF found = <<>> THEN None
        ELSE IF candidates = <<>> THEN None
        ELSE selected.agent_id

\* CostAwareRouter.set_strategy
set_strategy(s) ==
    /\ strategy' = s
    /\ last' = [op |-> "set_strategy", id |-> s, ret |-> None]
    /\ UNCHANGED <<now, uuids, event_history, regVars, manifests, a2aVars, hitlVars,
                   learnVars, busVars>>

\* A call of CostAwareRouter.select_agent
select(capability, strategy_arg, max_cost, max_latency) ==
    /\ last' = [op |-> "select_agent",
                id |-> [capability |-> capability, strategy |-> strategy_arg,
                        max_cost |-> max_cost, max_latency |-> max_latency],
                ret |-> select_agent(capability, strategy_arg, max_cost, max_latency)]
    /\ UNCHANGED <<now, uuids, event_history, regVars, costVars, a2aVars, hitlVars,
                   learnVars, busVars>>

\* Agent ids that hold manifests, in lexicographic order
CostAgentIds == <<"a1", "a2", "a3">>

\* manifest_data handed to create_manifest: capabilities and metrics
\* (cost_rate and success_rate in hundredths)
ManifestData ==
    { [capabilities |-> {"cap"},
       metrics |-> [cost_rate |-> 20, latency_ms |-> 500, success_rate |-> 90]],
      [capabilities |-> {"cap", "other"},
       metrics |-> [cost_rate |-> 5, latency_ms |-> 5000, success_rate |-> 60]],
      [capabilities |-> {"cap"},
       metrics |-> [cost_rate |-> 200, latency_ms |-> 0, success_rate |-> 100]],
      [capabilities |-> {"cap"},
       metrics |-> [cost_rate |-> 20, latency_ms |-> 500, success_rate |-> 60]],
      [capabilities |-> {"cap"},
       metrics |-> [cost_rate |-> 5]] }

\* Arguments of select_agent: capability, strategy, <<max_cost, max_latency>>
Capabilities == {"cap", "other"}
StrategyArgs == {None, "highest_success"}
ConstraintInputs == {<<NoLimit, NoLimit>>, <<0, NoLimit>>, <<10, 1000>>, <<NoLimit, 0>>}

\* A CostAwareRouter over an empty ManifestService, strategy best_value
InitCost ==
    /\ now = 0
    /\ uuids = 0
    /\ event_history = <<>>
    /\ ready = <<>>
    /\ registry_bus = TRUE
    /\ agents = <<>>
    /\ agents_order = <<>>
    /\ agents_by_did = <<>>
    /\ manifests = <<>>
    /\ strategy = "best_value"
    /\ message_router = "MessageRouter"
    /\ task_store = [t \in {} |-> None]
    /\ queue = [r \in {} |-> None]
    /\ hitl_config = [HITL_TIMEOUT_SECONDS |-> 0, timeout_seconds |-> 0,
                      auto_approve |-> FALSE]
    /\ calls = <<>>
    /\ update_buffer = <<>>
    /\ q_tables = <<>>
    /\ state_spaces = <<>>
    /\ action_spaces = <<>>
    /\ q_updates = 0
    /\ subscribers = <<>>
    /\ emits = <<>>
    /\ received = <<>>
    /\ addressed = <<>>
    /\ last = NoOperation

NextCost ==
    \/ \E k \in 1..Len(CostAgentIds), d \in ManifestData :
           create_manifest(CostAgentIds[k], d.capabilities, d.metrics)
    \/ \E k \in 1..Len(CostAgentIds) : delete_manifest(CostAgentIds[k])
    \/ \E s \in RoutingStrategy : set_strategy(s)
    \/ \E c \in Capabilities, s \in StrategyArgs, limits \in ConstraintInputs :
           select(c, s, limits[1], limits[2])

SpecCost == InitCost /\ [][NextCost]_vars

-----------------------------------------------------------------------------
(* MessageRouter *)

MessageType == {"text", "task", "response", "notification", "query", "command",
                "jsonrpc"}

\* MessageRouter._route_to_agent:
\* <<routed, event history afterwards, the message afterwards>>
route_to_agent(history, message, agent_id) ==
    IF agent_id \notin DOMAIN agents
    THEN <<FALSE, history, message>>
    ELSE <<TRUE, emit(history, Event("message.sent",
                     [message_id |-> message.id, sender_id |-> message.sender_id,
                      receiver_id |-> agent_id])),
           [message EXCEPT !.receiver_id = agent_id]>>

\* The delivery loop of _broadcast over the agent ids still to serve
RECURSIVE broadcast_to(_, _, _, _)
broadcast_to(history, message, agent_ids, success_count) ==
    IF agent_ids = <<>>
    THEN <<success_count > 0, history, message>>
    ELSE LET r == route_to_agent(history, message, Head(agent_ids))
         IN  broadcast_to(r[2], r[3], Tail(agent_ids),
                          IF r[1] THEN success_count + 1 ELSE success_count)

\* MessageRouter._broadcast
broadcast(history, message) ==
    LET capability == message.required_capability
        found == find_agents_by_capability(capability)
        agent_ids == IF capability # None
                     THEN [k \in 1..Len(found) |-> found[k].agent_id]
                     ELSE list_all
    IN  broadcast_to(history, message, agent_ids, 0)

\* route that goes on to capability selection and broadcast when the
\* addressed agent is missing
route_falls_through(history, message) ==
    LET capability == message.required_capability
        agent_id == IF capability # None
                    THEN select_agent(capability, None, NoLimit, NoLimit)
                    ELSE None
    IN  IF message.receiver_id \notin {None, ""} /\ message.receiver_id \in DOMAIN agents
        THEN route_to_agent(history, message, message.receiver_id)
        ELSE IF agent_id # None
        THEN route_to_agent(history, [message EXCEPT !.receiver_id = agent_id], agent_id)
        ELSE IF message.message_type = "notification"
        THEN broadcast(history, message)
        ELSE <<FALSE, history, message>>

\* MessageRouter.route: <<routed, event history afterwards, message afterwards>>
route(history, message) ==
    IF message.receiver_id \notin {None, ""}
    THEN route_to_agent(history, message, message.receiver_id)
    ELSE LET capability == message.required_capability
             agent_id == IF capability # None
                         THEN select_agent(capability, None, NoLimit, NoLimit)
                         ELSE None
         IN  IF agent_id # None
             THEN route_to_agent(history, [message EXCEPT !.receiver_id = agent_id],
                                 agent_id)
             ELSE IF message.message_type = "notification"
             THEN broadcast(history, message)
             ELSE <<FALSE, history, message>>

\* A call of MessageRouter.route
route_message(message) ==
    /\ Len(event_history) + Len(ready) < MaxEvents
    /\ LET r == route(event_history, message)
       IN  /\ event_history' = r[2]
           /\ last' = [op |-> "route", id |-> message, message |-> r[3],
                       ret |-> IF r[1] THEN "True" ELSE "False"]
    /\ UNCHANGED <<now, uuids, regVars, costVars, a2aVars, hitlVars, learnVars, busVars>>

\* Agents handed to register: two identifiers, each with and without a DID,
\* in the four statuses
RouterAgents ==
    { [id |-> "u1", did |-> None, status |-> "active", last_active |-> 0],
      [id |-> "u1", did |-> "did:u1", status |-> "pending", last_active |-> 0],
      [id |-> "u2", did |-> "did:u2", status |-> "suspended", last_active |-> 0],
      [id |-> "u2", did |-> None, status |-> "inactive", last_active |-> 0] }

RouterAgentIds == {"u1", "u2"}

\* Manifests created for a registered agent and for one that is not registered
RouterManifests ==
    { [agent_id |-> "u1", capabilities |-> {"cap"},
       metrics |-> [cost_rate |-> 20, latency_ms |-> 500, success_rate |-> 90]],
      [agent_id |-> "u3", capabilities |-> {"cap"},
       metrics |-> [cost_rate |-> 20, latency_ms |-> 500, success_rate |-> 90]] }

\* Messages handed to route
RouteInputs ==
    [id : {"m1"}, sender_id : {"u0"}, receiver_id : {None, "u1", "u2"},
     message_type : {"task", "notification"}, required_capability : {None, "cap"}]

\* create_app: the registry and the router share one event bus; a registry
\* built without an event bus is covered too.
InitRouter ==
    /\ now = 0
    /\ uuids = 0
    /\ event_history = <<>>
    /\ ready = <<>>
    /\ registry_bus \in BOOLEAN
    /\ agents = <<>>
    /\ agents_order = <<>>
    /\ agents_by_did = <<>>
    /\ manifests = <<>>
    /\ strategy = "best_value"
    /\ message_router = "MessageRouter"
    /\ task_store = [t \in {} |-> None]
    /\ queue = [r \in {} |-> None]
    /\ hitl_config = [HITL_TIMEOUT_SECONDS |-> 0, timeout_seconds |-> 0,
                      auto_approve |-> FALSE]
    /\ calls = <<>>
    /\ update_buffer = <<>>
    /\ q_tables = <<>>
    /\ state_spaces = <<>>
    /\ action_spaces = <<>>
    /\ q_updates = 0
    /\ subscribers = <<>>
    /\ emits = <<>>
    /\ received = <<>>
    /\ addressed = <<>>
    /\ last = NoOperation

NextRouter ==
    \/ \E a \in RouterAgents : register(a)
    \/ \E a \in RouterAgentIds : unregister(a)
    \/ run_scheduled_emit
    \/ \E m \in RouterManifests : create_manifest(m.agent_id, m.capabilities, m.metrics)
    \/ \E m \in RouteInputs : route_message(m)

SpecRouter == InitRouter /\ [][NextRouter]_vars

-----------------------------------------------------------------------------
(* A2A task engine *)

TaskStatus == {"pending", "running", "completed", "failed", "cancelled"}

\* What the router a handler was built with does when asked to route:
\* "raise" (a router whose route raises), or MessageRouter.route.
RouterKinds == {"none", "MessageRouter", "raising"}

\* routing_failed with the status assignment lost
routing_failed_status_kept(task_record, e) ==
    [task_record EXCEPT !.error = e]

\* The except branch of _handle_tasks_send: the router raised e
routing_failed(task_record, e) ==
    [task_record EXCEPT !.status = "failed", !.error = e]

\* A2AHandler._handle_tasks_send
tasks_send(target_agent, priority, sender_id) ==
    /\ Cardinality(DOMAIN task_store) < MaxTasks
    /\ Len(event_history) + Len(ready) < MaxEvents
    /\ LET task_id == uuids + 1
           message_id == uuids + 2
           task_record == [task_id |-> task_id, target_agent |-> target_agent,
                           sender_id |-> sender_id, priority |-> priority,
                           status |-> "pending", created_at |-> now,
                           updated_at |-> now, result |-> None, error |-> None]
           sender == IF sender_id = None THEN "" ELSE sender_id
           message == [id |-> message_id, sender_id |-> sender,
                       receiver_id |-> target_agent, message_type |-> "task",
                       required_capability |-> None]
           routed == route(event_history, message)
           final == IF message_router = "raising"
                    THEN routing_failed(task_record, "error")
                    ELSE task_record
       IN  /\ uuids' = IF message_router = "none" THEN uuids + 1 ELSE uuids + 2
           /\ event_history' = IF message_router = "MessageRouter"
                               THEN routed[2] ELSE event_history
           /\ task_store' = [t \in DOMAIN task_store \cup {task_id} |->
                                IF t = task_id THEN final ELSE task_store[t]]
           /\ last' = [op |-> "tasks/send", id |-> task_id,
                       ret |-> [task_id |-> task_id, status |-> final.status]]
    /\ UNCHANGED <<now, regVars, costVars, message_router, hitlVars, learnVars, busVars>>

\* A2AHandler._handle_tasks_status
tasks_status(task_id) ==
    /\ IF task_id \notin DOMAIN task_store
       THEN last' = [op |-> "tasks/status", id |-> task_id,
                     ret |-> [error |-> "Task not found"]]
       ELSE last' = [op |-> "tasks/status", id |-> task_id,
                     ret |-> [task_id |-> task_id,
                              status |-> task_store[task_id].status,
                              created_at |-> task_store[task_id].created_at,
                              updated_at |-> task_store[task_id].updated_at,
                              result |-> task_store[task_id].result,
                              error |-> task_store[task_id].error]]
    /\ UNCHANGED <<now, uuids, event_history, regVars, costVars, a2aVars, hitlVars,
                   learnVars, busVars>>

\* A2AHandler._handle_tasks_cancel
tasks_cancel(task_id) ==
    /\ IF task_id \notin DOMAIN task_store
       THEN /\ last' = [op |-> "tasks/cancel", id |-> task_id,
                        ret |-> [error |-> "Task not found"]]
            /\ UNCHANGED task_store
       ELSE IF task_store[task_id].status \in {"completed", "cancelled"}
       THEN /\ last' = [op |-> "tasks/cancel", id |-> task_id,
                        ret |-> [error |-> "Cannot cancel task in status"]]
            /\ UNCHANGED task_store
       ELSE /\ task_store' = [task_store EXCEPT ![task_id].status = "cancelled",
                                                 ![task_id].updated_at = now]
            /\ last' = [op |-> "tasks/cancel", id |-> task_id,
                        ret |-> [task_id |-> task_id, status |-> "cancelled"]]
    /\ UNCHANGED <<now, uuids, event_history, regVars, costVars, message_router, hitlVars,
                   learnVars, busVars>>

\* A2AHandler.update_task_status
update_task_status(task_id, status, result, error) ==
    /\ IF task_id \notin DOMAIN task_store
       THEN /\ last' = [op |-> "update_task_status", id |-> task_id, ret |-> "False"]
            /\ UNCHANGED task_store
       ELSE /\ task_store' = [task_store EXCEPT
                   ![task_id].status = status,
                   ![task_id].updated_at = now,
                   ![task_id].result = IF result # None THEN result ELSE @,
                   ![task_id].error = IF error # None THEN error ELSE @]
            /\ last' = [op |-> "update_task_status", id |-> task_id, ret |-> "True"]
    /\ UNCHANGED <<now, uuids, event_history, regVars, costVars, message_router, hitlVars,
                   learnVars, busVars>>

\* Identifiers a caller may name: the ones handed out and one never handed out.
TaskIdInputs == DOMAIN task_store \cup {0}

\* The handler is built with no router, with a MessageRouter over a registry
\* that has no event bus, or with a router whose route raises.  The clock
\* stands still in this specification: created_at and updated_at are written
\* but all carry the same reading.
InitA2A ==
    /\ now = 0
    /\ uuids = 0
    /\ event_history = <<>>
    /\ ready = <<>>
    /\ registry_bus = FALSE
    /\ agents = <<>>
    /\ agents_order = <<>>
    /\ agents_by_did = <<>>
    /\ manifests = <<>>
    /\ strategy = "best_value"
    /\ message_router \in RouterKinds
    /\ task_store = [t \in {} |-> None]
    /\ queue = [r \in {} |-> None]
    /\ hitl_config = [HITL_TIMEOUT_SECONDS |-> 0, timeout_seconds |-> 0,
                      auto_approve |-> FALSE]
    /\ calls = <<>>
    /\ update_buffer = <<>>
    /\ q_tables = <<>>
    /\ state_spaces = <<>>
    /\ action_spaces = <<>>
    /\ q_updates = 0
    /\ subscribers = <<>>
    /\ emits = <<>>
    /\ received = <<>>
    /\ addressed = <<>>
    /\ last = NoOperation

NextA2A ==
    \/ \E a \in AgentIds : register(NewAgent(a))
    \/ \E a \in AgentIds : unregister(a)
    \/ \E a \in AgentIds, i \in SendInputs : tasks_send(a, i[1], i[2])
    \/ \E t \in TaskIdInputs : tasks_status(t)
    \/ \E t \in TaskIdInputs : tasks_cancel(t)
    \/ \E t \in TaskIdInputs, st \in TaskStatus, r \in Results, e \in Errors :
           update_task_status(t, st, r, e)

SpecA2A == InitA2A /\ [][NextA2A]_vars

-----------------------------------------------------------------------------
(* JSON-RPC 2.0 handler over the A2A methods *)

\* JSONRPCErrorCode
PARSE_ERROR == -32700
INVALID_REQUEST == -32600
METHOD_NOT_FOUND == -32601
INVALID_PARAMS == -32602
INTERNAL_ERROR == -32603
SERVER_ERROR == -32000

\* A request without "id" (request.id is None), a response with id None
NoId == -1

\* The methods A2AHandler.__init__ registers
Methods == {"tasks/send", "tasks/status", "tasks/cancel"}

\* What a handler call leaves behind: the state it wrote and either its
\* result or the exception it raised with its text
Returned(st, result) == [st |-> st, raised |-> None, result |-> result]
Raised(st, exception, text) == [st |-> st, raised |-> exception, text |-> text]

\* A2AHandler._handle_tasks_send on the state st = [task_store, uuids,
\* event_history]
handle_tasks_send(st, params) ==
    LET task_id == st.uuids + 1
        message_id == st.uuids + 2
        priority == IF "priority" \in DOMAIN params THEN params.priority ELSE 2
        sender_id == IF "sender_id" \in DOMAIN params THEN params.sender_id ELSE None
        task_record == [task_id |-> task_id, target_agent |-> params.target_agent,
                        sender_id |-> sender_id, priority |-> priority,
                        status |-> "pending", created_at |-> now,
                        updated_at |-> now, result |-> None, error |-> None]
        message == [id |-> message_id,
                    sender_id |-> IF sender_id = None THEN "" ELSE sender_id,
                    receiver_id |-> params.target_agent, message_type |-> "task",
                    required_capability |-> None]
        routed == route(st.event_history, message)
        final == IF message_router = "raising"
                 THEN routing_failed(task_record, "error")
                 ELSE task_record
    IN  Returned([task_store |-> [t \in DOMAIN st.task_store \cup {task_id} |->
                                     IF t = task_id THEN final ELSE st.task_store[t]],
                  uuids |-> IF message_router = "none" THEN st.uuids + 1
                            ELSE st.uuids + 2,
                  event_history |-> IF message_router = "MessageRouter"
                                    THEN routed[2] ELSE st.event_history],
                 [task_id |-> task_id, status |-> final.status])

\* A2AHandler._handle_tasks_status
handle_tasks_status(st, params) ==
    IF params.task_id \notin DOMAIN st.task_store
    THEN Raised(st, "ValueError", "Task not found")
    ELSE LET task_record == st.task_store[params.task_id]
         IN  Returned(st, [task_id |-> params.task_id, status |-> task_record.status,
                           created_at |-> task_record.created_at,
                           updated_at |-> task_record.updated_at,
                           result |-> task_record.result, error |-> task_record.error])

\* A2AHandler._handle_tasks_cancel
handle_tasks_cancel(st, params) ==
    IF params.task_id \notin DOMAIN st.task_store
    THEN Raised(st, "ValueError", "Task not found")
    ELSE IF st.task_store[params.task_id].status \in {"completed", "cancelled"}
    THEN Raised(st, "ValueError", "Cannot cancel task in status")
    ELSE Returned([st EXCEPT !.task_store[params.task_id].status = "cancelled",
                             !.task_store[params.task_id].updated_at = now],
                  [task_id |-> params.task_id, status |-> "cancelled"])

\* handler(**request.params): binding the parameters raises TypeError when a
\* required one is missing or, for a handler without **kwargs, when one is
\* not in the signature
call_handler(st, method, params) ==
    IF method = "tasks/send"
    THEN IF {"task", "target_agent"} \subseteq DOMAIN params
         THEN handle_tasks_send(st, params)
         ELSE Raised(st, "TypeError", "missing required argument")
    ELSE IF DOMAIN params # {"task_id"}
    THEN Raised(st, "TypeError", "unexpected or missing argument")
    ELSE IF method = "tasks/status"
    THEN handle_tasks_status(st, params)
    ELSE handle_tasks_cancel(st, params)

\* JSONRPCResponse(error=JSONRPCError(code, message), id=id); no error is
\* ever built with data
ErrorResponse(code, message, id) ==
    [id |-> id, error |-> [code |-> code, message |-> message]]

\* JSONRPCResponse(result=result, id=id)
ResultResponse(result, id) == [id |-> id, result |-> result]

\* What handle_request leaves behind: the state, the response (<<>> for
\* None) and the handlers it invoked
Handled(st, response, invoked) ==
    [st |-> st, response |-> response, invoked |-> invoked]

\* _handle_notification that never calls the handler
handle_notification_skipped(st, data) == Handled(st, <<>>, <<>>)

\* JSONRPCHandler._handle_notification: the handler, if there is one, is
\* called and whatever it raises is logged and dropped
handle_notification(st, data) ==
    IF data.method \in Methods
    THEN Handled(call_handler(st, data.method, data.params).st, <<>>, <<data.method>>)
    ELSE Handled(st, <<>>, <<>>)

\* The response of handle_request to the outcome of the handler call: the
\* result, INVALID_PARAMS for a TypeError, INTERNAL_ERROR for any other
\* exception
respond(outcome, data) ==
    IF outcome.raised = None
    THEN Handled(outcome.st, <<ResultResponse(outcome.result, data.id)>>,
                 <<data.method>>)
    ELSE IF outcome.raised = "TypeError"
    THEN Handled(outcome.st,
                 <<ErrorResponse(INVALID_PARAMS,
                                 <<"Invalid parameters: ", outcome.text>>,
                                 data.id)>>, <<data.method>>)
    ELSE Handled(outcome.st,
                 <<ErrorResponse(INTERNAL_ERROR,
                                 <<"Internal error: ", outcome.text>>,
                                 data.id)>>, <<data.method>>)

\* JSONRPCHandler.handle_request on a dict
handle_request(st, data) ==
    IF data.jsonrpc # "2.0"
    THEN Handled(st, <<ErrorResponse(INVALID_REQUEST, "Invalid JSON-RPC version",
                                     data.id)>>, <<>>)
    ELSE IF data.id = NoId
    THEN handle_notification(st, data)
    ELSE IF data.method \notin Methods
    THEN Handled(st, <<ErrorResponse(METHOD_NOT_FOUND, "Method not found", data.id)>>,
                 <<>>)
    ELSE respond(call_handler(st, data.method, data.params), data)

\* The loop of handle_batch over the entries still to handle: the state, the
\* responses collected and, per entry, the handlers invoked
RECURSIVE process_batch(_, _, _, _)

\* One turn of the loop: r is what handle_request left for the entry, its
\* response, if there is one, is appended
append_response(r, rest, responses, invoked) ==
    process_batch(r.st, rest, responses \o r.response, Append(invoked, r.invoked))

process_batch(st, requests_data, responses, invoked) ==
    IF requests_data = <<>>
    THEN Handled(st, responses, invoked)
    ELSE append_response(handle_request(st, Head(requests_data)),
                         Tail(requests_data), responses, invoked)

\* handle_batch on a dict: return [response] if response else []
single_request(r) == Handled(r.st, r.response, <<r.invoked>>)

\* The state the handlers work on
HandlerState ==
    [task_store |-> task_store, uuids |-> uuids, event_history |-> event_history]

\* The number of tasks/send entries among the requests
RECURSIVE sends(_)
sends(requests_data) ==
    IF requests_data = <<>> THEN 0
    ELSE (IF Head(requests_data).method = "tasks/send" THEN 1 ELSE 0)
         + sends(Tail(requests_data))

\* The handler call op on data has left r: the state is written back and the
\* call recorded
handler_returns(op, data, r) ==
    /\ task_store' = r.st.task_store
    /\ uuids' = r.st.uuids
    /\ event_history' = r.st.event_history
    /\ last' = [op |-> op, id |-> data, ret |-> r.response, invoked |-> r.invoked]

\* A call of A2AHandler.handle_request
a2a_handle_request(data) ==
    /\ Cardinality(DOMAIN task_store) + sends(<<data>>) <= MaxTasks
    /\ handler_returns("handle_request", data, handle_request(HandlerState, data))
    /\ UNCHANGED <<now, regVars, costVars, message_router, hitlVars, learnVars, busVars>>

\* A call of JSONRPCHandler.handle_batch with a list, or with a dict (a
\* single request, not a batch)
handle_batch(batch_data) ==
    /\ Cardinality(DOMAIN task_store) + sends(batch_data.requests) <= MaxTasks
    /\ IF batch_data.is_list
       THEN handler_returns("handle_batch", batch_data,
                            process_batch(HandlerState, batch_data.requests,
                                          <<>>, <<>>))
       ELSE handler_returns("handle_batch", batch_data,
                            single_request(handle_request(HandlerState,
                                                          batch_data.requests[1])))
    /\ UNCHANGED <<now, regVars, costVars, message_router, hitlVars, learnVars, busVars>>

\* A JSON-RPC request object
Request(method, params, id) ==
    [jsonrpc |-> "2.0", method |-> method, params |-> params, id |-> id]

\* Requests handed to handle_request: every method on a stored and on an
\* unknown task id, with and without id, a method that is not registered,
\* parameters that do not fit, and a wrong protocol version
RequestInputs ==
    { Request(m, [task_id |-> t], i) :
          m \in {"tasks/status", "tasks/cancel"}, t \in TaskIdInputs, i \in {NoId, 7} }
    \cup { Request("tasks/send", [task |-> "work", target_agent |-> "u1"], i) :
               i \in {NoId, 7} }
    \cup { Request("tasks/none", [task_id |-> 0], 7),
           Request("tasks/cancel", [id |-> 0], 7),
           [Request("tasks/status", [task_id |-> 0], 7) EXCEPT !.jsonrpc = "1.0"] }

\* Entries of a batch: a request and a notification whose handler raises, a
\* request and a notification for a method that is not registered, and a
\* request and a notification whose handler creates a task
BatchEntries ==
    { Request("tasks/status", [task_id |-> 0], 7),
      Request("tasks/status", [task_id |-> 0], NoId),
      Request("tasks/none", [task_id |-> 0], 8),
      Request("tasks/none", [task_id |-> 0], NoId),
      Request("tasks/send", [task |-> "work", target_agent |-> "u1"], 9),
      Request("tasks/send", [task |-> "work", target_agent |-> "u1"], NoId) }

\* The lists of at most MaxBatch entries
Batches(n) == UNION { [1..k -> BatchEntries] : k \in 0..n }

\* What handle_batch is handed: a list of entries or one request on its own
BatchInputs ==
    { [is_list |-> TRUE, requests |-> b] : b \in Batches(MaxBatch) }
    \cup { [is_list |-> FALSE, requests |-> <<e>>] : e \in BatchEntries }

\* create_app: the handler is built with the MessageRouter; no agent is
\* registered, so route returns False for every task message
InitRPC ==
    /\ now = 0
    /\ uuids = 0
    /\ event_history = <<>>
    /\ ready = <<>>
    /\ registry_bus = FALSE
    /\ agents = <<>>
    /\ agents_order = <<>>
    /\ agents_by_did = <<>>
    /\ manifests = <<>>
    /\ strategy = "best_value"
    /\ message_router = "MessageRouter"
    /\ task_store = [t \in {} |-> None]
    /\ queue = [r \in {} |-> None]
    /\ hitl_config = [HITL_TIMEOUT_SECONDS |-> 0, timeout_seconds |-> 0,
                      auto_approve |-> FALSE]
    /\ calls = <<>>
    /\ update_buffer = <<>>
    /\ q_tables = <<>>
    /\ state_spaces = <<>>
    /\ action_spaces = <<>>
    /\ q_updates = 0
    /\ subscribers = <<>>
    /\ emits = <<>>
    /\ received = <<>>
    /\ addressed = <<>>
    /\ last = NoOperation

NextRPC ==
    \/ \E d \in RequestInputs : a2a_handle_request(d)
    \/ \E b \in BatchInputs : handle_batch(b)
    \/ \E t \in TaskIdInputs, st \in TaskStatus : update_task_status(t, st, None, None)

SpecRPC == InitRPC /\ [][NextRPC]_vars

-----------------------------------------------------------------------------
(* FRLAggregator *)

\* A Q-table is the tuple of its rows; q_table.shape
shape(q_table) == <<Len(q_table), Len(q_table[1])>>

\* np.zeros(first_shape) with q_table copied into its top left corner, as far
\* as both reach
resized(q_table, first_shape) ==
    LET min_shape ==
            <<IF shape(q_table)[1] < first_shape[1] THEN shape(q_table)[1]
              ELSE first_shape[1],
              IF shape(q_table)[2] < first_shape[2] THEN shape(q_table)[2]
              ELSE first_shape[2]>>
    IN  [i \in 1..first_shape[1] |->
            [j \in 1..first_shape[2] |->
                IF i <= min_shape[1] /\ j <= min_shape[2] THEN q_table[i][j] ELSE 0]]

\* The sum of one cell over the tables
RECURSIVE cell_sum(_, _, _)
cell_sum(q_tables_list, i, j) ==
    IF q_tables_list = <<>> THEN 0
    ELSE Head(q_tables_list)[i][j] + cell_sum(Tail(q_tables_list), i, j)

\* np.mean(q_tables, axis=0) of tables of one shape. The cells are whole
\* numbers of a unit small enough for the means to be whole too.
mean(q_tables_list) ==
    [i \in 1..shape(q_tables_list[1])[1] |->
        [j \in 1..shape(q_tables_list[1])[2] |->
            cell_sum(q_tables_list, i, j) \div Len(q_tables_list)]]

\* The federated average of aggregate_updates: every table that has not the
\* shape of the first update is resized to it, then the tables are averaged
federated_average(updates) ==
    LET first_shape == updates[1].shape
    IN  mean([k \in 1..Len(updates) |->
                 IF shape(updates[k].q_table) # first_shape
                 THEN resized(updates[k].q_table, first_shape)
                 ELSE updates[k].q_table])

\* The updates buffered for an agent
buffered(agent_id) ==
    IF agent_id \in DOMAIN update_buffer THEN update_buffer[agent_id] ELSE <<>>

\* FRLAggregator.submit_update; the update id is the hash of the agent, the
\* instance and the time
submit_update(agent_id, q_table, instance_id) ==
    /\ Len(buffered(agent_id)) < MaxUpdates
    /\ LET update_id == <<agent_id, instance_id, now>>
           new_update == [update_id |-> update_id, agent_id |-> agent_id,
                          instance_id |-> instance_id, q_table |-> q_table,
                          shape |-> shape(q_table), timestamp |-> now]
       IN  /\ update_buffer' =
                  [a \in DOMAIN update_buffer \cup {agent_id} |->
                      IF a = agent_id THEN Append(buffered(agent_id), new_update)
                      ELSE update_buffer[a]]
           /\ last' = [op |-> "submit_update", id |-> agent_id, ret |-> update_id]
    /\ UNCHANGED <<now, uuids, event_history, regVars, costVars, a2aVars, hitlVars, busVars,
                   q_tables, state_spaces, action_spaces, q_updates>>

\* aggregate_updates that leaves the averaged updates in the buffer
aggregate_keeping_buffer(agent_id) ==
    /\ UNCHANGED update_buffer
    /\ last' = [op |-> "aggregate_updates", id |-> agent_id,
                updates |-> buffered(agent_id),
                ret |-> IF Len(buffered(agent_id)) < 2 THEN <<>>
                        ELSE <<federated_average(buffered(agent_id))>>]
    /\ UNCHANGED <<now, uuids, event_history, regVars, costVars, a2aVars, hitlVars, busVars,
                   q_tables, state_spaces, action_spaces, q_updates>>

\* FRLAggregator.aggregate_updates; ret is <<>> for None and <<table>> for
\* the aggregated table
aggregate_updates(agent_id) ==
    /\ IF Len(buffered(agent_id)) < 2
       THEN /\ UNCHANGED update_buffer
            /\ last' = [op |-> "aggregate_updates", id |-> agent_id,
                        updates |-> buffered(agent_id), ret |-> <<>>]
       ELSE /\ update_buffer' = [update_buffer EXCEPT ![agent_id] = <<>>]
            /\ last' = [op |-> "aggregate_updates", id |-> agent_id,
                        updates |-> buffered(agent_id),
                        ret |-> <<federated_average(buffered(agent_id))>>]
    /\ UNCHANGED <<now, uuids, event_history, regVars, costVars, a2aVars, hitlVars, busVars,
                   q_tables, state_spaces, action_spaces, q_updates>>

FRLAgentIds == {"a1", "a2"}

\* The Q-tables submitted: two of shape 2x2, one of 1x1 and one of 1x3
QTableInputs ==
    { << <<12, 24>>, <<0, 12>> >>,
      << <<24, 0>>, <<12, 12>> >>,
      << <<24>> >>,
      << <<0, 12, 24>> >> }

\* FRLAggregator(): the buffer is empty
InitFRL ==
    /\ now = 0
    /\ uuids = 0
    /\ event_history = <<>>
    /\ ready = <<>>
    /\ registry_bus = TRUE
    /\ agents = <<>>
    /\ agents_order = <<>>
    /\ agents_by_did = <<>>
    /\ manifests = <<>>
    /\ strategy = "best_value"
    /\ message_router = "MessageRouter"
    /\ task_store = [t \in {} |-> None]
    /\ queue = [r \in {} |-> None]
    /\ hitl_config = [HITL_TIMEOUT_SECONDS |-> 0, timeout_seconds |-> 0,
                      auto_approve |-> FALSE]
    /\ calls = <<>>
    /\ update_buffer = <<>>
    /\ q_tables = <<>>
    /\ state_spaces = <<>>
    /\ action_spaces = <<>>
    /\ q_updates = 0
    /\ subscribers = <<>>
    /\ emits = <<>>
    /\ received = <<>>
    /\ addressed = <<>>
    /\ last = NoOperation

NextFRL ==
    \/ \E a \in FRLAgentIds, q \in QTableInputs : submit_update(a, q, "i1")
    \/ \E a \in FRLAgentIds : aggregate_updates(a)

SpecFRL == InitFRL /\ [][NextFRL]_vars

-----------------------------------------------------------------------------
(* QLearning *)

\* The value 1.0 of a reward, a cost or a Q-value: they are whole numbers of
\* billionths, which keeps every product with a rate or a weight whole
One == 1000000000

\* cost=None, latency=None: the argument is not supplied
Unsupplied == -1

\* The arguments of QLearning.__init__, in tenths
learning_rate == 1
discount_factor == 9
cost_weight == 3
latency_weight == 2
reward_weight == 5

\* np.zeros((num_states, num_actions))
zeros(num_states, num_actions) ==
    [i \in 1..num_states |-> [j \in 1..num_actions |-> 0]]

\* QLearning.initialize_agent
initialize_agent(agent_id, num_states, num_actions) ==
    /\ q_tables' = [a \in DOMAIN q_tables \cup {agent_id} |->
                       IF a = agent_id THEN zeros(num_states, num_actions)
                       ELSE q_tables[a]]
    /\ state_spaces' = [a \in DOMAIN state_spaces \cup {agent_id} |->
                           IF a = agent_id THEN <<>> ELSE state_spaces[a]]
    /\ action_spaces' = [a \in DOMAIN action_spaces \cup {agent_id} |->
                            IF a = agent_id THEN <<>> ELSE action_spaces[a]]
    /\ last' = [op |-> "initialize_agent", id |-> agent_id, ret |-> None]
    /\ UNCHANGED <<now, uuids, event_history, regVars, costVars, a2aVars, hitlVars, busVars,
                   update_buffer, q_updates>>

\* A state or action space is the tuple of its names in the order of their
\* indices: the name at place k has the index k - 1.
\* get_state_index / get_action_index: a name that is new gets the next index
space_with(space, name) ==
    IF \E k \in 1..Len(space) : space[k] = name THEN space ELSE Append(space, name)

\* The place of a name in its space, one more than its index
place(space, name) == CHOOSE k \in 1..Len(space) : space[k] = name

\* QLearning._resize_q_table: <<new_table>>, or <<>> when the assignment
\* new_table[:old_states, :old_actions] = old_table raises ValueError because
\* the new table is smaller than the old one in a dimension
resize_q_table(old_table, num_states, num_actions) ==
    IF num_states < shape(old_table)[1] \/ num_actions < shape(old_table)[2]
    THEN <<>>
    ELSE <<[i \in 1..num_states |->
              [j \in 1..num_actions |->
                  IF i <= shape(old_table)[1] /\ j <= shape(old_table)[2]
                  THEN old_table[i][j] ELSE 0]]>>

\* np.max(q_table[next_state_idx, :])
row_max(row) ==
    CHOOSE v \in {row[j] : j \in 1..Len(row)} : \A j \in 1..Len(row) : row[j] <= v

\* min(x, 1.0)
min_one(x) == IF x < One THEN x ELSE One

\* QLearning._calculate_adjusted_reward; the latency is in milliseconds
calculate_adjusted_reward(reward, cost, latency) ==
    (reward \div 10) * reward_weight
    + (IF cost # Unsupplied THEN 0 - (min_one(cost) \div 10) * cost_weight ELSE 0)
    + (IF latency # Unsupplied
       THEN 0 - (min_one(latency * (One \div 10000)) \div 10) * latency_weight
       ELSE 0)

\* The Q-learning update of update_q_value on the table that is large enough
new_q_value(q_table, state_place, action_place, next_state_place, adjusted_reward) ==
    LET current_q == q_table[state_place][action_place]
        max_next_q == row_max(q_table[next_state_place])
    IN  current_q + ((adjusted_reward + (max_next_q \div 10) * discount_factor
                      - current_q) \div 10) * learning_rate

\* What update_q_value leaves when the table did not have to be resized or
\* was resized: the cell is written and its value returned
q_value_written(agent_id, args, tables, states, actions, value) ==
    /\ q_tables' =
           [tables EXCEPT ![agent_id][place(states[agent_id], args.state)]
                                     [place(actions[agent_id], args.action)] = value]
    /\ state_spaces' = states
    /\ action_spaces' = actions
    /\ last' = [op |-> "update_q_value", id |-> args, ret |-> <<value>>,
                raised |-> None]

\* What update_q_value leaves when _resize_q_table raised
resize_raised(args, tables, states, actions) ==
    /\ q_tables' = tables
    /\ state_spaces' = states
    /\ action_spaces' = actions
    /\ last' = [op |-> "update_q_value", id |-> args, ret |-> <<>>,
                raised |-> "ValueError"]

\* update_q_value from the resize on: fitted is what _resize_q_table
\* returned, or the table itself when it was large enough
update_fitted(agent_id, args, tables, states, actions, fitted) ==
    IF fitted = <<>>
    THEN resize_raised(args, tables, states, actions)
    ELSE q_value_written(agent_id, args, [tables EXCEPT ![agent_id] = fitted[1]],
             states, actions,
             new_q_value(fitted[1], place(states[agent_id], args.state),
                         place(actions[agent_id], args.action),
                         place(states[agent_id], args.next_state),
                         calculate_adjusted_reward(args.reward, args.cost,
                                                   args.latency)))

\* update_q_value once the agent has a table and the indices are assigned
update_indexed(agent_id, args, tables, states, actions) ==
    LET max_state == IF place(states[agent_id], args.state)
                          > place(states[agent_id], args.next_state)
                     THEN place(states[agent_id], args.state)
                     ELSE place(states[agent_id], args.next_state)
        max_action == place(actions[agent_id], args.action)
    IN  update_fitted(agent_id, args, tables, states, actions,
            IF max_state > shape(tables[agent_id])[1]
               \/ max_action > shape(tables[agent_id])[2]
            THEN resize_q_table(tables[agent_id], max_state, max_action)
            ELSE <<tables[agent_id]>>)

\* update_q_value once the agent has a table: the three indices are assigned
update_initialized(agent_id, args, tables, states, actions) ==
    update_indexed(agent_id, args, tables,
        [states EXCEPT ![agent_id] =
            space_with(space_with(@, args.state), args.next_state)],
        [actions EXCEPT ![agent_id] = space_with(@, args.action)])

\* QLearning.update_q_value; args holds the arguments after agent_id. An
\* agent without a table gets one of 10 by 10.
update_q_value(agent_id, args) ==
    /\ q_updates < MaxQUpdates
    /\ q_updates' = q_updates + 1
    /\ IF agent_id \in DOMAIN q_tables
       THEN update_initialized(agent_id, args, q_tables, state_spaces, action_spaces)
       ELSE update_initialized(agent_id, args,
                [a \in DOMAIN q_tables \cup {agent_id} |->
                    IF a = agent_id THEN zeros(10, 10) ELSE q_tables[a]],
                [a \in DOMAIN state_spaces \cup {agent_id} |->
                    IF a = agent_id THEN <<>> ELSE state_spaces[a]],
                [a \in DOMAIN action_spaces \cup {agent_id} |->
                    IF a = agent_id THEN <<>> ELSE action_spaces[a]])
    /\ UNCHANGED <<now, uuids, event_history, regVars, costVars, a2aVars, hitlVars, busVars,
                   update_buffer>>

QAgentIds == {"a1", "a2"}
QStates == {"s1", "s2"}
QActions == {"x", "y"}

\* (reward, cost, latency): the worked example 1.0, 0.5, 2000 ms; a reward
\* without cost and latency; a cost and a latency above their caps
QRewardInputs ==
    { <<One, One \div 2, 2000>>,
      <<One, Unsupplied, Unsupplied>>,
      <<0, 2 * One, 20000>> }

\* The arguments of update_q_value after agent_id
QUpdateInputs ==
    { [state |-> s, action |-> a, reward |-> r[1], next_state |-> n,
       cost |-> r[2], latency |-> r[3]] :
          s \in QStates, a \in QActions, n \in QStates, r \in QRewardInputs }

\* The shapes handed to initialize_agent
QShapeInputs == { <<1, 2>>, <<2, 1>> }

\* QLearning(): no agent has a table
InitQ ==
    /\ now = 0
    /\ uuids = 0
    /\ event_history = <<>>
    /\ ready = <<>>
    /\ registry_bus = TRUE
    /\ agents = <<>>
    /\ agents_order = <<>>
    /\ agents_by_did = <<>>
    /\ manifests = <<>>
    /\ strategy = "best_value"
    /\ message_router = "MessageRouter"
    /\ task_store = [t \in {} |-> None]
    /\ queue = [r \in {} |-> None]
    /\ hitl_config = [HITL_TIMEOUT_SECONDS |-> 0, timeout_seconds |-> 0,
                      auto_approve |-> FALSE]
    /\ calls = <<>>
    /\ update_buffer = <<>>
    /\ q_tables = <<>>
    /\ state_spaces = <<>>
    /\ action_spaces = <<>>
    /\ q_updates = 0
    /\ subscribers = <<>>
    /\ emits = <<>>
    /\ received = <<>>
    /\ addressed = <<>>
    /\ last = NoOperation

NextQ ==
    \/ \E a \in QAgentIds, sh \in QShapeInputs : initialize_agent(a, sh[1], sh[2])
    \/ \E a \in QAgentIds, args \in QUpdateInputs : update_q_value(a, args)

SpecQ == InitQ /\ [][NextQ]_vars

\* get_q_value from the resize on: fitted is what _resize_q_table returned,
\* or the table itself when it was large enough
get_q_value_fitted(agent_id, args, state_place, action_place, fitted) ==
    IF fitted = <<>>
    THEN /\ UNCHANGED q_tables
         /\ last' = [op |-> "get_q_value", id |-> args, ret |-> <<>>,
                     raised |-> "ValueError"]
    ELSE /\ q_tables' = [q_tables EXCEPT ![agent_id] = fitted[1]]
         /\ last' = [op |-> "get_q_value", id |-> args,
                     ret |-> <<fitted[1][state_place][action_place]>>,
                     raised |-> None]

\* get_q_value once the indices are assigned
get_q_value_indexed(agent_id, args, state_place, action_place) ==
    get_q_value_fitted(agent_id, args, state_place, action_place,
        IF state_place > shape(q_tables[agent_id])[1]
           \/ action_place > shape(q_tables[agent_id])[2]
        THEN resize_q_table(q_tables[agent_id], state_place, action_place)
        ELSE <<q_tables[agent_id]>>)

\* QLearning.get_q_value; args is <<state, action>>
get_q_value(agent_id, args) ==
    /\ IF agent_id \notin DOMAIN q_tables
       THEN /\ UNCHANGED <<q_tables, state_spaces, action_spaces>>
            /\ last' = [op |-> "get_q_value", id |-> args, ret |-> <<0>>,
                        raised |-> None]
       ELSE /\ state_spaces' = [state_spaces EXCEPT ![agent_id] = space_with(@, args[1])]
            /\ action_spaces' = [action_spaces EXCEPT ![agent_id] = space_with(@, args[2])]
            /\ get_q_value_indexed(agent_id, args,
                   place(space_with(state_spaces[agent_id], args[1]), args[1]),
                   place(space_with(action_spaces[agent_id], args[2]), args[2]))
    /\ UNCHANGED <<now, uuids, event_history, regVars, costVars, a2aVars, hitlVars, busVars,
                   update_buffer, q_updates>>

\* get_action_index for each of the actions in turn
RECURSIVE space_with_all(_, _)
space_with_all(space, names) ==
    IF names = <<>> THEN space
    ELSE space_with_all(space_with(space, Head(names)), Tail(names))

\* The Q-value get_best_action pairs with an action: the cell of the row, or
\* 0.0 for an action whose index is outside the table
action_q_value(row, space, action) ==
    IF place(space, action) <= Len(row) THEN row[place(space, action)] ELSE 0

\* max(action_q_values, key=lambda x: x[1])[0]: the first of the actions with
\* the highest value
best_of(row, space, actions) ==
    actions[CHOOSE k \in 1..Len(actions) :
        /\ \A j \in 1..Len(actions) :
               action_q_value(row, space, actions[j])
                   <= action_q_value(row, space, actions[k])
        /\ \A j \in 1..(k - 1) :
               action_q_value(row, space, actions[j])
                   < action_q_value(row, space, actions[k])]

\* get_best_action once the state has its index; the table is not resized.
\* op is the name of the call that is recorded.
best_action_indexed(op, agent_id, actions, state_place) ==
    IF state_place > shape(q_tables[agent_id])[1]
    THEN /\ UNCHANGED action_spaces
         /\ last' = [op |-> op, id |-> actions, ret |-> <<actions[1]>>,
                     raised |-> None]
    ELSE /\ action_spaces' = [action_spaces EXCEPT ![agent_id] =
                                  space_with_all(@, actions)]
         /\ last' = [op |-> op, id |-> actions,
                     ret |-> <<best_of(q_tables[agent_id][state_place],
                                       space_with_all(action_spaces[agent_id], actions),
                                       actions)>>,
                     raised |-> None]

\* The body of get_best_action on a list of actions that is not empty
best_action(op, agent_id, state, actions) ==
    IF agent_id \notin DOMAIN q_tables
    THEN /\ UNCHANGED <<state_spaces, action_spaces>>
         /\ last' = [op |-> op, id |-> actions,
                     ret |-> <<actions[1]>>, raised |-> None]
    ELSE /\ state_spaces' = [state_spaces EXCEPT ![agent_id] = space_with(@, state)]
         /\ best_action_indexed(op, agent_id, actions,
                place(space_with(state_spaces[agent_id], state), state))

\* QLearning.get_best_action
get_best_action(agent_id, state, actions) ==
    /\ best_action("get_best_action", agent_id, state, actions)
    /\ UNCHANGED <<now, uuids, event_history, regVars, costVars, a2aVars, hitlVars, busVars,
                   update_buffer, q_tables, q_updates>>

\* QLearning.select_action: random.random() < exploration_rate explores with
\* random.choice(actions), otherwise the call is get_best_action
select_action(agent_id, state, actions) ==
    \/ /\ \E k \in 1..Len(actions) :
              last' = [op |-> "select_action", id |-> actions, ret |-> <<actions[k]>>,
                       raised |-> None]
       /\ UNCHANGED <<now, uuids, event_history, regVars, costVars, a2aVars, hitlVars,
                      learnVars, busVars>>
    \/ /\ best_action("select_action", agent_id, state, actions)
       /\ UNCHANGED <<now, uuids, event_history, regVars, costVars, a2aVars, hitlVars, busVars,
                      update_buffer, q_tables, q_updates>>

\* The lists of actions handed to get_best_action and select_action
QActionLists == { <<"x">>, <<"x", "y">>, <<"y", "x">> }

\* The arguments of update_q_value when only the indices matter
QIndexUpdateInputs ==
    { [state |-> s, action |-> a, reward |-> One, next_state |-> n,
       cost |-> Unsupplied, latency |-> Unsupplied] :
          s \in QStates, a \in QActions, n \in QStates }

QIndexAgentIds == {"a1"}

\* Updates and reads of one learner
NextQIndex ==
    \/ \E a \in QIndexAgentIds, sh \in QShapeInputs : initialize_agent(a, sh[1], sh[2])
    \/ \E a \in QIndexAgentIds, args \in QIndexUpdateInputs : update_q_value(a, args)
    \/ \E a \in QIndexAgentIds, s \in QStates, x \in QActions : get_q_value(a, <<s, x>>)
    \/ \E a \in QIndexAgentIds, s \in QStates, xs \in QActionLists :
           get_best_action(a, s, xs)
    \/ \E a \in QIndexAgentIds, s \in QStates, xs \in QActionLists :
           select_action(a, s, xs)

SpecQIndex == InitQ /\ [][NextQIndex]_vars

-----------------------------------------------------------------------------
(* Message and its JSON-RPC form *)

MessagePriority == 1..4

\* dict.get(key, default) on a mapping
get(mapping, key, default) ==
    IF key \in DOMAIN mapping THEN mapping[key] ELSE default

\* Message.to_jsonrpc; jsonrpc_id None and 0 are falsy
to_jsonrpc(message) ==
    [jsonrpc |-> "2.0",
     id |-> IF message.jsonrpc_id \in {NoId, 0} THEN message.id
            ELSE message.jsonrpc_id,
     method |-> get(message.metadata, "method", "message/send"),
     params |-> [sender_id |-> message.sender_id,
                 receiver_id |-> message.receiver_id,
                 content |-> message.content,
                 type |-> message.message_type,
                 priority |-> message.priority,
                 metadata |-> [k \in DOMAIN message.metadata \ {"method"} |->
                                  message.metadata[k]]]]

\* from_jsonrpc that does not read the priority of the params
from_jsonrpc_default_priority(jsonrpc_data, new_id) ==
    [id |-> new_id,
     jsonrpc_id |-> jsonrpc_data.id,
     sender_id |-> jsonrpc_data.params.sender_id,
     receiver_id |-> jsonrpc_data.params.receiver_id,
     content |-> jsonrpc_data.params.content,
     message_type |-> jsonrpc_data.params.type,
     priority |-> 2,
     metadata |-> [k \in DOMAIN jsonrpc_data.params.metadata \cup {"method"} |->
                      IF k = "method" THEN jsonrpc_data.method
                      ELSE jsonrpc_data.params.metadata[k]],
     requires_approval |-> FALSE]

\* Message.from_jsonrpc on the JSON-RPC form of a message, which has every
\* key; new_id is str(uuid.uuid4()); the fields not passed to cls() keep the
\* defaults of the dataclass
from_jsonrpc(jsonrpc_data, new_id) ==
    [id |-> new_id,
     jsonrpc_id |-> jsonrpc_data.id,
     sender_id |-> jsonrpc_data.params.sender_id,
     receiver_id |-> jsonrpc_data.params.receiver_id,
     content |-> jsonrpc_data.params.content,
     message_type |-> jsonrpc_data.params.type,
     priority |-> jsonrpc_data.params.priority,
     metadata |-> [k \in DOMAIN jsonrpc_data.params.metadata \cup {"method"} |->
                      IF k = "method" THEN jsonrpc_data.method
                      ELSE jsonrpc_data.params.metadata[k]],
     requires_approval |-> FALSE]

\* A call of to_jsonrpc on a message
message_to_jsonrpc(message) ==
    /\ last' = [op |-> "to_jsonrpc", id |-> message, ret |-> to_jsonrpc(message)]
    /\ UNCHANGED <<now, uuids, event_history, regVars, costVars, a2aVars, hitlVars,
                   learnVars, busVars>>

\* A call of Message.from_jsonrpc on what to_jsonrpc returned last
message_from_jsonrpc ==
    /\ last.op = "to_jsonrpc"
    /\ uuids < MaxMessages
    /\ uuids' = uuids + 1
    /\ last' = [op |-> "from_jsonrpc", id |-> last.ret, message |-> last.id,
                ret |-> from_jsonrpc(last.ret, uuids + 1)]
    /\ UNCHANGED <<now, event_history, regVars, costVars, a2aVars, hitlVars,
                   learnVars, busVars>>

\* The metadata of the messages: none, a method, another key, both
MetadataInputs ==
    { [k \in {} |-> None], [method |-> "tasks/send"], [trace |-> "t1"],
      [method |-> "tasks/send", trace |-> "t1"] }

\* The messages converted
JsonMessageInputs ==
    [id : {0}, jsonrpc_id : {NoId, 42}, sender_id : {"", "s1"},
     receiver_id : {"", "r1"}, content : {None, "foo"},
     message_type : {"text", "task", "notification"}, priority : MessagePriority,
     metadata : MetadataInputs, requires_approval : {TRUE}]

InitMessage ==
    /\ now = 0
    /\ uuids = 0
    /\ event_history = <<>>
    /\ ready = <<>>
    /\ registry_bus = TRUE
    /\ agents = <<>>
    /\ agents_order = <<>>
    /\ agents_by_did = <<>>
    /\ manifests = <<>>
    /\ strategy = "best_value"
    /\ message_router = "MessageRouter"
    /\ task_store = [t \in {} |-> None]
    /\ queue = [r \in {} |-> None]
    /\ hitl_config = [HITL_TIMEOUT_SECONDS |-> 0, timeout_seconds |-> 0,
                      auto_approve |-> FALSE]
    /\ calls = <<>>
    /\ update_buffer = <<>>
    /\ q_tables = <<>>
    /\ state_spaces = <<>>
    /\ action_spaces = <<>>
    /\ q_updates = 0
    /\ subscribers = <<>>
    /\ emits = <<>>
    /\ received = <<>>
    /\ addressed = <<>>
    /\ last = NoOperation

NextMessage ==
    \/ \E m \in JsonMessageInputs : message_to_jsonrpc(m)
    \/ message_from_jsonrpc

SpecMessage == InitMessage /\ [][NextMessage]_vars

-----------------------------------------------------------------------------
(* ApprovalQueue *)

ApprovalStatus == {"pending", "approved", "rejected", "expired", "escalated"}

\* ApprovalQueue.__init__: self.default_timeout = timeout_seconds or Config.HITL_TIMEOUT_SECONDS
default_timeout ==
    IF hitl_config.timeout_seconds # 0
    THEN hitl_config.timeout_seconds
    ELSE hitl_config.HITL_TIMEOUT_SECONDS

\* ApprovalRequest.is_expired
is_expired(request) ==
    IF request.timeout_at # NoTime THEN now > request.timeout_at ELSE FALSE

\* ApprovalQueue.add_request (timeout_seconds not passed): the new request
add_request(request_id, message, reason, requester_id) ==
    LET timeout == default_timeout
    IN  [request_id |-> request_id, message_id |-> message.id, message |-> message,
         reason |-> reason, requester_id |-> requester_id, status |-> "pending",
         created_at |-> now,
         timeout_at |-> IF timeout > 0 THEN now + timeout ELSE NoTime,
         approved_by |-> None, rejection_reason |-> None,
         metadata |-> [approved_at |-> NoTime, rejected_by |-> None,
                       rejected_at |-> NoTime]]

\* approve_request without the test for pending
approve_request_unchecked(request, approved_by) ==
    <<[request EXCEPT !.status = "approved", !.approved_by = approved_by,
                      !.metadata.approved_at = now], TRUE>>

\* ApprovalQueue.approve on a stored request: <<request afterwards, returned>>
approve_request(request, approved_by) ==
    IF request.status # "pending"
    THEN <<request, FALSE>>
    ELSE <<[request EXCEPT !.status = "approved", !.approved_by = approved_by,
                           !.metadata.approved_at = now], TRUE>>

\* An approve that approves every pending request of the queue
approve_every_pending(request_id, approved_by) ==
    /\ queue' = [r \in DOMAIN queue |-> approve_request(queue[r], approved_by)[1]]
    /\ last' = [op |-> "approve", id |-> request_id,
                ret |-> IF request_id \in DOMAIN queue THEN "True" ELSE "False"]
    /\ UNCHANGED <<now, uuids, event_history, regVars, costVars, a2aVars, hitl_config, calls,
                   learnVars, busVars>>

\* ApprovalQueue.approve
approve(request_id, approved_by) ==
    /\ IF request_id \notin DOMAIN queue
       THEN /\ UNCHANGED queue
            /\ last' = [op |-> "approve", id |-> request_id, ret |-> "False"]
       ELSE LET r == approve_request(queue[request_id], approved_by)
            IN  /\ queue' = [queue EXCEPT ![request_id] = r[1]]
                /\ last' = [op |-> "approve", id |-> request_id,
                            ret |-> IF r[2] THEN "True" ELSE "False"]
    /\ UNCHANGED <<now, uuids, event_history, regVars, costVars, a2aVars, hitl_config, calls,
                   learnVars, busVars>>

\* ApprovalQueue.reject on a stored request: <<request afterwards, returned>>
reject_request(request, rejected_by, reason) ==
    IF request.status # "pending"
    THEN <<request, FALSE>>
    ELSE <<[request EXCEPT !.status = "rejected", !.rejection_reason = reason,
                           !.metadata.rejected_by = rejected_by,
                           !.metadata.rejected_at = now], TRUE>>

\* ApprovalQueue.reject
reject(request_id, rejected_by, reason) ==
    /\ IF request_id \notin DOMAIN queue
       THEN /\ UNCHANGED queue
            /\ last' = [op |-> "reject", id |-> request_id, ret |-> "False"]
       ELSE LET r == reject_request(queue[request_id], rejected_by, reason)
            IN  /\ queue' = [queue EXCEPT ![request_id] = r[1]]
                /\ last' = [op |-> "reject", id |-> request_id,
                            ret |-> IF r[2] THEN "True" ELSE "False"]
    /\ UNCHANGED <<now, uuids, event_history, regVars, costVars, a2aVars, hitl_config, calls,
                   learnVars, busVars>>

\* The loop body of ApprovalQueue.cleanup_expired, for one request
expire_request(request) ==
    IF is_expired(request) THEN [request EXCEPT !.status = "expired"] ELSE request

\* ApprovalQueue.cleanup_expired; returns the ids it marked
cleanup_expired ==
    /\ queue' = [r \in DOMAIN queue |-> expire_request(queue[r])]
    /\ last' = [op |-> "cleanup_expired", id |-> 0,
                ret |-> {r \in DOMAIN queue : is_expired(queue[r])}]
    /\ UNCHANGED <<now, uuids, event_history, regVars, costVars, a2aVars, hitl_config, calls,
                   learnVars, busVars>>

\* ApprovalQueue.list_pending: the ids of the requests it returns
list_pending == {r \in DOMAIN queue : queue[r].status = "pending"}

-----------------------------------------------------------------------------
(* HITLMiddleware *)

DefaultReason == "Message flagged for human approval"

\* Messages handed to process_message: the requires_approval attribute and the
\* metadata keys that carry a true value.
MessageInputs ==
    { [requires_approval |-> FALSE, metadata |-> {}],
      [requires_approval |-> FALSE, metadata |-> {"sensitive_transaction"}],
      [requires_approval |-> FALSE, metadata |-> {"requires_approval"}],
      [requires_approval |-> TRUE,  metadata |-> {}] }

NewMessage(id, input) ==
    [id |-> id, sender_id |-> "u0", requires_approval |-> input.requires_approval,
     metadata |-> input.metadata]

\* The first test of process_message: the message goes through ungated.
passes_ungated(message) == ~message.requires_approval

\* process_message up to its first suspension: the gate, add_request, the
\* hitl.approval_required event, auto-approval, and the first turn of the
\* loop of _wait_for_approval, which ends in asyncio.sleep(1).  A call that
\* returns at the gate leaves only its result (in last).  A returned message
\* is <<message>>, a returned None is <<>>.
process_message_call(input) ==
    /\ LET message == NewMessage(Len(calls) + 1, input)
           request_id == uuids + 1
           requester == IF message.sender_id = "" THEN "system" ELSE message.sender_id
           request == add_request(request_id, message, DefaultReason, requester)
           required == Event("hitl.approval_required",
                             [request_id |-> request_id, message_id |-> message.id,
                              reason |-> DefaultReason])
       IN  IF passes_ungated(message)
           THEN /\ last' = [op |-> "process_message", id |-> message.id,
                            ret |-> <<message>>]
                /\ UNCHANGED <<uuids, queue, event_history, calls>>
           ELSE /\ uuids' = uuids + 1
                /\ UNCHANGED last
                /\ event_history' = emit(event_history, required)
                /\ IF hitl_config.auto_approve
                   THEN /\ queue' = [r \in DOMAIN queue \cup {request_id} |->
                                        IF r = request_id
                                        THEN approve_request(request, "system")[1]
                                        ELSE queue[r]]
                        /\ calls' = Append(calls, [message |-> message,
                                           request_id |-> request_id,
                                           pc |-> "done", start_time |-> now,
                                           wake_at |-> now, result |-> <<message>>])
                   ELSE /\ queue' = [r \in DOMAIN queue \cup {request_id} |->
                                        IF r = request_id THEN request ELSE queue[r]]
                        /\ calls' = Append(calls, [message |-> message,
                                           request_id |-> request_id,
                                           pc |-> "sleeping", start_time |-> now,
                                           wake_at |-> now + 1, result |-> <<>>])
    /\ UNCHANGED <<now, regVars, costVars, a2aVars, hitl_config, learnVars, busVars>>

\* HITLMiddleware.process_message, one call
process_message(input) ==
    /\ Len(calls) < MaxCalls
    /\ process_message_call(input)

\* HITLMiddleware.process_message while an earlier call is still waiting
process_message_concurrently(input) ==
    /\ Len(calls) < MaxCalls + 1
    /\ process_message_call(input)

\* A loop that applies the elapsed-time test also to a timeout of 0
wait_outcome_zero_timeout(request, start_time) ==
    IF request.status = "approved" THEN "approved"
    ELSE IF request.status = "rejected" THEN "rejected"
    ELSE IF is_expired(request) THEN "expired"
    ELSE IF now - start_time > hitl_config.HITL_TIMEOUT_SECONDS THEN "timeout"
    ELSE "sleep"

\* One turn of the loop of _wait_for_approval for a request in the given state:
\* "approved" (return the message), "rejected" (return None after the event),
\* "expired" / "timeout" (return None), or "sleep".
wait_outcome(request, start_time) ==
    IF request.status = "approved" THEN "approved"
    ELSE IF request.status = "rejected" THEN "rejected"
    ELSE IF is_expired(request) THEN "expired"
    ELSE IF hitl_config.HITL_TIMEOUT_SECONDS > 0
            /\ now - start_time > hitl_config.HITL_TIMEOUT_SECONDS THEN "timeout"
    ELSE "sleep"

\* The events one turn of the loop emits
wait_events(outcome, request, message) ==
    IF outcome = "approved"
    THEN <<Event("hitl.approved",
                 [request_id |-> request.request_id, message_id |-> message.id,
                  approved_by |-> request.approved_by])>>
    ELSE IF outcome = "rejected"
    THEN <<Event("hitl.rejected",
                 [request_id |-> request.request_id, message_id |-> message.id,
                  reason |-> request.rejection_reason])>>
    ELSE <<>>

\* A waiter that emits the decision event and keeps polling
wait_for_approval_repeating(c) ==
    /\ calls[c].pc = "sleeping"
    /\ now >= calls[c].wake_at
    /\ LET call == calls[c]
           request == queue[call.request_id]
           outcome == wait_outcome(request, call.start_time)
           events == wait_events(outcome, request, call.message)
       IN  /\ event_history' = IF events = <<>> THEN event_history
                               ELSE emit(event_history, events[1])
           /\ calls' = [calls EXCEPT ![c] =
                  IF outcome \in {"sleep", "approved", "rejected"}
                  THEN [call EXCEPT !.wake_at = now + 1]
                  ELSE [call EXCEPT !.pc = "done", !.result = <<>>]]
    /\ UNCHANGED <<now, uuids, regVars, costVars, a2aVars, queue, hitl_config, last,
                   learnVars, busVars>>

\* _wait_for_approval wakes from asyncio.sleep(1) and runs the loop once more.
\* A wake-up may come later than the second asked for, never earlier.  The
\* queue never drops a request, so get_request finds it.
wait_for_approval(c) ==
    /\ calls[c].pc = "sleeping"
    /\ now >= calls[c].wake_at
    /\ LET call == calls[c]
           request == queue[call.request_id]
           outcome == wait_outcome(request, call.start_time)
           events == wait_events(outcome, request, call.message)
       IN  /\ event_history' = IF events = <<>> THEN event_history
                               ELSE emit(event_history, events[1])
           /\ calls' = [calls EXCEPT ![c] =
                  IF outcome = "sleep" THEN [call EXCEPT !.wake_at = now + 1]
                  ELSE [call EXCEPT !.pc = "done",
                           !.result = IF outcome = "approved" THEN <<call.message>>
                                      ELSE <<>>]]
    /\ UNCHANGED <<now, uuids, regVars, costVars, a2aVars, queue, hitl_config, last,
                   learnVars, busVars>>

Approvers == {"ops1"}
RejectReasons == {"denied"}
RequestIdInputs == DOMAIN queue \cup {0}

\* The queue is built as in create_app (ApprovalQueue(), so timeout_seconds
\* is None, written 0); HITL_TIMEOUT_SECONDS is 0 (no deadline) or 2 seconds.
InitHITL ==
    /\ now = 0
    /\ uuids = 0
    /\ event_history = <<>>
    /\ ready = <<>>
    /\ registry_bus = FALSE
    /\ agents = <<>>
    /\ agents_order = <<>>
    /\ agents_by_did = <<>>
    /\ manifests = <<>>
    /\ strategy = "best_value"
    /\ message_router = "MessageRouter"
    /\ task_store = [t \in {} |-> None]
    /\ queue = [r \in {} |-> None]
    /\ hitl_config \in [HITL_TIMEOUT_SECONDS : {0, 2}, timeout_seconds : {0},
                        auto_approve : BOOLEAN]
    /\ calls = <<>>
    /\ update_buffer = <<>>
    /\ q_tables = <<>>
    /\ state_spaces = <<>>
    /\ action_spaces = <<>>
    /\ q_updates = 0
    /\ subscribers = <<>>
    /\ emits = <<>>
    /\ received = <<>>
    /\ addressed = <<>>
    /\ last = NoOperation

NextHITL ==
    \/ Tick(MaxTime)
    \/ \E i \in MessageInputs : process_message(i)
    \/ \E c \in 1..Len(calls) : wait_for_approval(c)
    \/ \E r \in RequestIdInputs, by \in Approvers : approve(r, by)
    \/ \E r \in RequestIdInputs, by \in Approvers, why \in RejectReasons :
           reject(r, by, why)
    \/ cleanup_expired

SpecHITL == InitHITL /\ [][NextHITL]_vars

\* Messages flagged for approval
GatedInputs == { [requires_approval |-> TRUE, metadata |-> {}] }

\* The middleware of create_app with HITL_TIMEOUT_SECONDS = 0
InitHITLWaiters ==
    /\ InitHITL
    /\ hitl_config = [HITL_TIMEOUT_SECONDS |-> 0, timeout_seconds |-> 0,
                      auto_approve |-> FALSE]

\* Several process_message calls waiting at once, with operator decisions
NextHITLWaiters ==
    \/ Tick(1)
    \/ \E i \in GatedInputs : process_message_concurrently(i)
    \/ \E c \in 1..Len(calls) : wait_for_approval(c)
    \/ \E r \in RequestIdInputs, by \in Approvers : approve(r, by)
    \/ \E r \in RequestIdInputs, by \in Approvers, why \in RejectReasons :
           reject(r, by, why)

SpecHITLWaiters == InitHITLWaiters /\ [][NextHITLWaiters]_vars

\* The same construction with HITL_ENABLED=false in the environment
InitHITLDisabled ==
    /\ now = 0
    /\ uuids = 0
    /\ event_history = <<>>
    /\ ready = <<>>
    /\ registry_bus = FALSE
    /\ agents = <<>>
    /\ agents_order = <<>>
    /\ agents_by_did = <<>>
    /\ manifests = <<>>
    /\ strategy = "best_value"
    /\ message_router = "MessageRouter"
    /\ task_store = [t \in {} |-> None]
    /\ queue = [r \in {} |-> None]
    /\ hitl_config \in [HITL_ENABLED : {FALSE}, HITL_TIMEOUT_SECONDS : {0, 2},
                        timeout_seconds : {0}, auto_approve : BOOLEAN]
    /\ calls = <<>>
    /\ update_buffer = <<>>
    /\ q_tables = <<>>
    /\ state_spaces = <<>>
    /\ action_spaces = <<>>
    /\ q_updates = 0
    /\ subscribers = <<>>
    /\ emits = <<>>
    /\ received = <<>>
    /\ addressed = <<>>
    /\ last = NoOperation

SpecHITLDisabled == InitHITLDisabled /\ [][NextHITL]_vars

-----------------------------------------------------------------------------
(* EventBus with subscribers *)

\* The callbacks handed to subscribe: a function, a function that raises and
\* a coroutine function, which suspends after it has taken the event
Callbacks == {"sync", "raising", "async"}

\* asyncio.iscoroutinefunction(callback)
iscoroutinefunction(callback) == callback = "async"

\* self._subscribers.get(event_type, [])
subscribers_of(event_type) ==
    IF event_type \in DOMAIN subscribers THEN subscribers[event_type] ELSE <<>>

\* callback in list
contains(list, callback) == \E k \in 1..Len(list) : list[k] = callback

\* EventBus.subscribe
subscribe(event_type, callback) ==
    /\ subscribers' =
           [t \in DOMAIN subscribers \cup {event_type} |->
               IF t # event_type THEN subscribers[t]
               ELSE IF contains(subscribers_of(t), callback) THEN subscribers[t]
               ELSE Append(subscribers_of(t), callback)]
    /\ UNCHANGED <<now, uuids, regVars, costVars, a2aVars, hitlVars, learnVars,
                   event_history, emits, received, addressed, last>>

\* EventBus.unsubscribe
unsubscribe(event_type, callback) ==
    /\ subscribers' =
           [t \in DOMAIN subscribers |->
               IF t = event_type
               THEN SelectSeq(subscribers[t], LAMBDA c : c # callback)
               ELSE subscribers[t]]
    /\ UNCHANGED <<now, uuids, regVars, costVars, a2aVars, hitlVars, learnVars,
                   event_history, emits, received, addressed, last>>

\* The callback bodies that run inside the loop over the subscribers: a
\* function is called on the spot (what it raises is caught); calling a
\* coroutine function only makes a coroutine, its body does not run
called_in_loop(event, callbacks) ==
    LET functions == SelectSeq(callbacks, LAMBDA c : ~iscoroutinefunction(c))
    IN  [k \in 1..Len(functions) |-> [callback |-> functions[k], event |-> event]]

\* The coroutines emit hands to asyncio.gather
gathered(callbacks) ==
    { callbacks[k] : k \in { j \in 1..Len(callbacks) : iscoroutinefunction(callbacks[j]) } }

\* emit with its history kept newest first
emit_until_gather_newest_first(event, caller) ==
    /\ event_history' = <<event>> \o event_history
    /\ received' = received \o called_in_loop(event, subscribers_of(event.event_type))
    /\ emits' = Append(emits,
           [event |-> event,
            caller |-> IF gathered(subscribers_of(event.event_type)) = {}
                       THEN None ELSE caller,
            subscribed |-> subscribers_of(event.event_type),
            pending |-> gathered(subscribers_of(event.event_type)),
            running |-> {},
            pc |-> IF gathered(subscribers_of(event.event_type)) = {}
                   THEN "returned" ELSE "waiting"])

\* EventBus.emit up to its await: the event is stored, the functions among
\* the subscribers are called, and the call returns when there is no
\* coroutine to wait for; otherwise it waits in asyncio.gather
emit_until_gather(event, caller) ==
    /\ event_history' = emit(event_history, event)
    /\ received' = received \o called_in_loop(event, subscribers_of(event.event_type))
    /\ emits' = Append(emits,
           [event |-> event,
            caller |-> IF gathered(subscribers_of(event.event_type)) = {}
                       THEN None ELSE caller,
            subscribed |-> subscribers_of(event.event_type),
            pending |-> gathered(subscribers_of(event.event_type)),
            running |-> {},
            pc |-> IF gathered(subscribers_of(event.event_type)) = {}
                   THEN "returned" ELSE "waiting"])

\* The event of the given type emitted next; its payload tells it apart
NextEvent(event_type) == Event(event_type, [n |-> Len(emits) + 1])

\* A call of EventBus.emit from a coroutine of the application
emit_event(event_type) ==
    /\ emit_until_gather(NextEvent(event_type), "emit")
    /\ last' = [op |-> "emit", id |-> Len(emits) + 1, ret |-> None]
    /\ UNCHANGED <<now, uuids, regVars, costVars, a2aVars, hitlVars, learnVars,
                   subscribers, addressed>>

\* EventBus.emit_sync
emit_sync(event_type) ==
    /\ event_history' = emit(event_history, NextEvent(event_type))
    /\ received' = received \o called_in_loop(NextEvent(event_type),
                                              subscribers_of(event_type))
    /\ emits' = Append(emits,
           [event |-> NextEvent(event_type), caller |-> None,
            subscribed |-> subscribers_of(event_type),
            pending |-> {}, running |-> {}, pc |-> "returned"])
    /\ last' = [op |-> "emit_sync", id |-> Len(emits) + 1, ret |-> None]
    /\ UNCHANGED <<now, uuids, regVars, costVars, a2aVars, hitlVars, learnVars,
                   subscribers, addressed>>

\* The event loop starts a gathered coroutine: the body of the callback runs
\* up to its first suspension
callback_starts(k, callback) ==
    /\ callback \in emits[k].pending
    /\ emits' = [emits EXCEPT ![k].pending = @ \ {callback},
                              ![k].running = @ \cup {callback}]
    /\ received' = Append(received, [callback |-> callback, event |-> emits[k].event])
    /\ UNCHANGED <<now, uuids, regVars, costVars, a2aVars, hitlVars, learnVars,
                   event_history, subscribers, addressed, last>>

\* A suspended callback is resumed and finishes
callback_finishes(k, callback) ==
    /\ callback \in emits[k].running
    /\ emits' = [emits EXCEPT ![k].running = @ \ {callback}]
    /\ UNCHANGED <<now, uuids, regVars, costVars, a2aVars, hitlVars, learnVars,
                   event_history, subscribers, received, addressed, last>>

\* asyncio.gather is done: emit returns to its caller, and with it
\* _route_to_agent and route when they made the call
emit_returns(k) ==
    /\ emits[k].pc = "waiting"
    /\ emits[k].pending = {}
    /\ emits[k].running = {}
    /\ emits' = [emits EXCEPT ![k].pc = "returned"]
    /\ UNCHANGED <<now, uuids, regVars, costVars, a2aVars, hitlVars, learnVars,
                   event_history, subscribers, received, addressed, last>>

\* MessageRouter.route of a new message addressed to agent_id, with the
\* router built with the event bus: _route_to_agent up to the await in emit
route_call(agent_id) ==
    /\ uuids' = uuids + 1
    /\ IF agent_id \notin DOMAIN agents
       THEN /\ UNCHANGED <<event_history, emits, received, addressed>>
            /\ last' = [op |-> "route", id |-> uuids + 1, ret |-> "False"]
       ELSE /\ addressed' = Append(addressed, [message_id |-> uuids + 1,
                                               receiver_id |-> agent_id])
            /\ emit_until_gather(Event("message.sent",
                   [message_id |-> uuids + 1, sender_id |-> "u0",
                    receiver_id |-> agent_id]), "route")
            /\ UNCHANGED last
    /\ UNCHANGED <<now, regVars, costVars, a2aVars, hitlVars, learnVars, subscribers>>

\* EventBus(), AgentRegistry(), MessageRouter(registry, event_bus=bus)
InitBus ==
    /\ now = 0
    /\ uuids = 0
    /\ event_history = <<>>
    /\ ready = <<>>
    /\ registry_bus = FALSE
    /\ agents = <<>>
    /\ agents_order = <<>>
    /\ agents_by_did = <<>>
    /\ manifests = <<>>
    /\ strategy = "best_value"
    /\ message_router = "MessageRouter"
    /\ task_store = [t \in {} |-> None]
    /\ queue = [r \in {} |-> None]
    /\ hitl_config = [HITL_TIMEOUT_SECONDS |-> 0, timeout_seconds |-> 0,
                      auto_approve |-> FALSE]
    /\ calls = <<>>
    /\ update_buffer = <<>>
    /\ q_tables = <<>>
    /\ state_spaces = <<>>
    /\ action_spaces = <<>>
    /\ q_updates = 0
    /\ subscribers = <<>>
    /\ emits = <<>>
    /\ received = <<>>
    /\ addressed = <<>>
    /\ last = NoOperation

\* The event types of the ring, of the subscriptions and of the emits
RingEventTypes == {"task.created"}
BusEventTypes == {"task.created", "agent.created"}

\* emit and emit_sync on a bus without subscribers
NextRing ==
    \/ \E t \in RingEventTypes : Len(emits) < MaxRing /\ emit_event(t)
    \/ \E t \in RingEventTypes : Len(emits) < MaxRing /\ emit_sync(t)

SpecRing == InitBus /\ [][NextRing]_vars

\* The number of subscriptions the bus holds
subscription_count ==
    Cardinality(UNION { { <<t, k>> : k \in 1..Len(subscribers[t]) } :
                        t \in DOMAIN subscribers })

NextBus ==
    \/ \E t \in BusEventTypes, c \in Callbacks :
           subscription_count < MaxSubscriptions /\ subscribe(t, c)
    \/ \E t \in BusEventTypes, c \in Callbacks : unsubscribe(t, c)
    \/ \E t \in BusEventTypes : Len(emits) < MaxEmits /\ emit_event(t)
    \/ \E t \in BusEventTypes : Len(emits) < MaxEmits /\ emit_sync(t)
    \/ \E k \in DOMAIN emits, c \in Callbacks : callback_starts(k, c)
    \/ \E k \in DOMAIN emits, c \in Callbacks : callback_finishes(k, c)
    \/ \E k \in DOMAIN emits : emit_returns(k)

SpecBus == InitBus /\ [][NextBus]_vars

DispatchAgentIds == {"u1", "u2"}
DispatchCallbacks == {"sync", "async"}

\* Routing with subscribers of message.sent
NextDispatch ==
    \/ \E a \in DispatchAgentIds : register(NewAgent(a))
    \/ \E c \in DispatchCallbacks : subscribe("message.sent", c)
    \/ \E a \in DispatchAgentIds : uuids < MaxRoutes /\ route_call(a)
    \/ \E k \in DOMAIN emits, c \in DispatchCallbacks : callback_starts(k, c)
    \/ \E k \in DOMAIN emits, c \in DispatchCallbacks : callback_finishes(k, c)
    \/ \E k \in DOMAIN emits : emit_returns(k)

SpecDispatch == InitBus /\ [][NextDispatch]_vars

-----------------------------------------------------------------------------
(* Properties of the A2A task engine (checked under SpecA2A) *)

\* The terminal states of a task
Terminal == {"completed", "failed", "cancelled"}

\* C1: once a task is completed, failed or cancelled, every later
\* update_task_status on it is refused (returns False) and leaves the task
\* record, and so its status, as it was.
C1_TerminalTaskRefusesUpdate ==
    [][\A t \in DOMAIN task_store, st \in TaskStatus, r \in Results, e \in Errors :
          ( /\ task_store[t].status \in Terminal
            /\ last'.op = "update_task_status"
            /\ update_task_status(t, st, r, e) )
              => (task_store' = task_store /\ last'.ret = "False")]_vars

\* C4: tasks/cancel on a completed, failed or cancelled task returns an error
\* and leaves the status unchanged; on a pending or running task it sets the
\* status to cancelled.
C4_CancelOnlyFromLiveStates ==
    [][\A t \in DOMAIN task_store :
          (last'.op = "tasks/cancel" /\ tasks_cancel(t)) =>
              IF task_store[t].status \in Terminal
              THEN /\ task_store'[t].status = task_store[t].status
                   /\ "error" \in DOMAIN last'.ret
              ELSE /\ task_store'[t].status = "cancelled"
                   /\ "error" \notin DOMAIN last'.ret]_vars

\* The transitions of the task state machine
AllowedTransitions ==
    { <<"pending", "running">>, <<"running", "completed">>, <<"running", "failed">>,
      <<"pending", "cancelled">>, <<"running", "cancelled">> }

\* C5: update_task_status carries out only the transitions of the state
\* machine; a request for any other change of status is rejected and leaves
\* the task unchanged.
C5_OnlyStateMachineTransitions ==
    [][\A t \in DOMAIN task_store, st \in TaskStatus, r \in Results, e \in Errors :
          ( /\ last'.op = "update_task_status"
            /\ update_task_status(t, st, r, e)
            /\ st # task_store[t].status
            /\ <<task_store[t].status, st>> \notin AllowedTransitions )
              => task_store' = task_store]_vars

\* C6: whatever routing does, tasks/send returns a task_id that was not in the
\* store before, the store then holds a task under that id whose status is
\* the returned status, the other tasks are untouched, and when the router
\* raised that status is failed and the error text is recorded.
C6_SendReturnsStoredTask ==
    [][\A a \in AgentIds, i \in SendInputs :
          (last'.op = "tasks/send" /\ tasks_send(a, i[1], i[2])) =>
              LET id == last'.ret.task_id
              IN  /\ id \notin DOMAIN task_store
                  /\ id \in DOMAIN task_store'
                  /\ task_store'[id].task_id = id
                  /\ task_store'[id].status = last'.ret.status
                  /\ \A t \in DOMAIN task_store : task_store'[t] = task_store[t]
                  /\ message_router = "raising" =>
                         /\ task_store'[id].status = "failed"
                         /\ task_store'[id].error = "error"]_vars

\* C6 witness: tasks/send has just returned for a router that raised
C6_Witness ==
    /\ last.op = "tasks/send"
    /\ message_router = "raising"
    /\ last.ret.task_id \in DOMAIN task_store
    /\ last.ret.status = "failed"

-----------------------------------------------------------------------------
(* Properties of the approval queue and the HITL middleware (SpecHITL) *)

\* C2: the status of an approval request changes only from pending: once it
\* is approved, rejected or expired no approve, reject or cleanup_expired
\* changes it again.
C2_StatusChangesOnlyFromPending ==
    [][\A r \in DOMAIN queue :
          queue[r].status # "pending" => queue'[r].status = queue[r].status]_vars

ApprovalFlags == {"sensitive_transaction", "requires_approval"}

\* C3: process_message returns a message whose metadata carries
\* sensitive_transaction or requires_approval only if an approval request was
\* created for it and that request was approved.
C3_FlaggedMessageNeedsApproval ==
    /\ last.op = "process_message" =>
          \A k \in 1..Len(last.ret) : last.ret[k].metadata \cap ApprovalFlags = {}
    /\ \A c \in 1..Len(calls) :
          ( /\ calls[c].pc = "done"
            /\ calls[c].result # <<>>
            /\ calls[c].message.metadata \cap ApprovalFlags # {} )
              => queue[calls[c].request_id].approved_by # None

\* C7: a gated message is not returned when the approve call came after the
\* request's deadline.
C7_NoDeliveryOnLateApproval ==
    \A c \in 1..Len(calls) :
        LET request == queue[calls[c].request_id]
        IN  ( /\ calls[c].pc = "done"
              /\ request.timeout_at # NoTime
              /\ request.metadata.approved_at > request.timeout_at )
                => calls[c].result = <<>>

TimeoutRejections(request_id) ==
    { k \in 1..Len(event_history) :
        /\ event_history[k].event_type = "hitl.rejected"
        /\ event_history[k].payload.request_id = request_id
        /\ event_history[k].payload.reason = "timeout" }

\* C8: when process_message has returned for a request that no operator
\* decided (its deadline passed), it returned no message and a hitl.rejected
\* event with reason "timeout" is in the history for that request.
C8_ExpiryEmitsTimeoutRejection ==
    \A c \in 1..Len(calls) :
        LET request == queue[calls[c].request_id]
        IN  ( /\ calls[c].pc = "done"
              /\ request.approved_by = None
              /\ request.rejection_reason = None )
                => /\ calls[c].result = <<>>
                   /\ TimeoutRejections(request.request_id) # {}

EventsOf(type, request_id) ==
    { k \in 1..Len(event_history) :
        /\ event_history[k].event_type = type
        /\ event_history[k].payload.request_id = request_id }

InTime(request, at) == request.timeout_at = NoTime \/ at < request.timeout_at

\* C9: when process_message has returned for a request that was approved
\* before its deadline, it returned the original message and exactly one
\* hitl.approved event was emitted for the request; for a request rejected
\* before its deadline it returned no message and exactly one hitl.rejected
\* event was emitted.
C9_DecisionReachesTheWaiter ==
    \A c \in 1..Len(calls) :
        LET request == queue[calls[c].request_id]
        IN  /\ ( /\ calls[c].pc = "done"
                 /\ request.approved_by = "ops1"
                 /\ InTime(request, request.metadata.approved_at) )
                   => /\ calls[c].result = <<calls[c].message>>
                      /\ Cardinality(EventsOf("hitl.approved", request.request_id)) = 1
            /\ ( /\ calls[c].pc = "done"
                 /\ request.rejection_reason # None
                 /\ InTime(request, request.metadata.rejected_at) )
                   => /\ calls[c].result = <<>>
                      /\ Cardinality(EventsOf("hitl.rejected", request.request_id)) = 1

C11_ReturnedOnDeadlineNotPending ==
    \A c \in 1..Len(calls) :
        LET request == queue[calls[c].request_id]
        IN  ( /\ calls[c].pc = "done"
              /\ request.approved_by = None
              /\ request.rejection_reason = None )
                => calls[c].request_id \notin list_pending

-----------------------------------------------------------------------------
(* Properties of the agent registry and the message router (SpecRouter) *)

\* C12: register of an agent whose identifier is already registered is
\* rejected with DuplicateIdentifier and leaves the registry unchanged: the
\* stored record, both indexes and the event history (with the emits still
\* to run) are as before.
C12_DuplicateRegisterRejected ==
    [][\A a \in RouterAgents :
          ( /\ last'.op = "register"
            /\ a.id \in DOMAIN agents
            /\ register(a) )
              => /\ last'.ret = "DuplicateIdentifier"
                 /\ agents' = agents
                 /\ agents_order' = agents_order
                 /\ agents_by_did' = agents_by_did
                 /\ event_history' = event_history
                 /\ ready' = ready]_vars

\* The message.sent event of a delivery of message to agent_id
MessageSent(message, agent_id) ==
    Event("message.sent", [message_id |-> message.id, sender_id |-> message.sender_id,
                           receiver_id |-> agent_id])

\* C13: route on a message whose receiver_id is set returns True exactly when
\* that agent is registered; on success the only event emitted is one
\* message.sent carrying that receiver_id, on failure no event is emitted, and
\* the message keeps its receiver (it is not re-routed by capability or
\* broadcast).  A message with no receiver, no required_capability and a type
\* other than notification fails with no event.
C13_AddressedRouteIsDirect ==
    [][\A m \in RouteInputs :
          (last'.op = "route" /\ route_message(m)) =>
              /\ m.receiver_id # None =>
                    /\ last'.ret = "True" <=> m.receiver_id \in DOMAIN agents
                    /\ last'.ret = "True" =>
                          event_history' =
                              Append(event_history, MessageSent(m, m.receiver_id))
                    /\ last'.ret = "False" => event_history' = event_history
                    /\ last'.message.receiver_id = m.receiver_id
              /\ ( /\ m.receiver_id = None
                   /\ m.required_capability = None
                   /\ m.message_type # "notification" )
                     => /\ last'.ret = "False"
                        /\ event_history' = event_history]_vars

\* C13 witness: a notification addressed to an agent that is not registered
\* was refused although another agent is registered and holds a manifest with
\* the capability the message asks for
C13_Witness ==
    /\ last.op = "route"
    /\ last.ret = "False"
    /\ last.id.receiver_id = "u2"
    /\ last.id.message_type = "notification"
    /\ last.id.required_capability = "cap"
    /\ "u2" \notin DOMAIN agents
    /\ "u1" \in DOMAIN agents
    /\ manifest_index("u1") # 0

\* C14: a notification with no receiver and no required_capability is
\* delivered, one message.sent event each, to exactly the registered agents
\* whose status is active (never to a pending, inactive or suspended agent),
\* and route returns True exactly when at least one delivery was made.
C14_BroadcastOnlyToActiveAgents ==
    [][\A m \in RouteInputs :
          ( /\ last'.op = "route"
            /\ m.receiver_id = None
            /\ m.required_capability = None
            /\ m.message_type = "notification"
            /\ route_message(m) )
              => LET sent == SubSeq(event_history', Len(event_history) + 1,
                                    Len(event_history'))
                     active == {a \in DOMAIN agents : agents[a].status = "active"}
                 IN  /\ \A k \in 1..Len(sent) : sent[k].event_type = "message.sent"
                     /\ {sent[k].payload.receiver_id : k \in 1..Len(sent)} = active
                     /\ Len(sent) = Cardinality(active)
                     /\ last'.ret = "True" <=> active # {}]_vars

-----------------------------------------------------------------------------
(* Properties of the cost-aware router (SpecCost) *)

\* The stored manifest of an agent
ManifestOf(agent_id) == manifests[manifest_index(agent_id)]

\* The manifest meets the limits that were supplied; a missing metric
\* exceeds every limit
MeetsLimits(manifest, max_cost, max_latency) ==
    /\ max_cost # NoLimit =>
           /\ "cost_rate" \in DOMAIN manifest.metrics
           /\ manifest.metrics.cost_rate <= max_cost
    /\ max_latency # NoLimit =>
           /\ "latency_ms" \in DOMAIN manifest.metrics
           /\ manifest.metrics.latency_ms <= max_latency

\* C15: for any supplied max_cost and max_latency (0 included) select_agent
\* never returns an agent whose cost_rate exceeds max_cost or whose latency_ms
\* exceeds max_latency (a missing metric counts as exceeding), and it
\* returns None when no manifest with the capability meets the limits.
C15_SelectRespectsLimits ==
    last.op = "select_agent" =>
        LET capability == last.id.capability
            max_cost == last.id.max_cost
            max_latency == last.id.max_latency
        IN  /\ last.ret # None =>
                   MeetsLimits(ManifestOf(last.ret), max_cost, max_latency)
            /\ (\A k \in 1..Len(manifests) :
                    capability \in manifests[k].capabilities =>
                        ~MeetsLimits(manifests[k], max_cost, max_latency))
                  => last.ret = None

\* The place of an agent id in the lexicographic order of the ids
IdRank(agent_id) == CHOOSE k \in 1..Len(CostAgentIds) : CostAgentIds[k] = agent_id

\* Lexicographic order on tuples of integers of the same length
LexLess(s, t) ==
    \E k \in 1..Len(s) : s[k] < t[k] /\ \A j \in 1..(k - 1) : s[j] = t[j]

\* The strategy a recorded select_agent call ran with
EffectiveStrategy == IF last.id.strategy # None THEN last.id.strategy ELSE strategy

\* The candidates a recorded select_agent call chose among
CandidatesOfLast ==
    apply_constraints(find_agents_by_capability(last.id.capability),
                      last.id.max_cost, last.id.max_latency)

\* The primary metric of a strategy followed by its tie-breaks
RankKey(strat, manifest) ==
    LET cost == metric(manifest, "cost_rate", Inf)
        latency == metric(manifest, "latency_ms", Inf)
        success == metric(manifest, "success_rate", 0)
        id == IdRank(manifest.agent_id)
    IN  IF strat = "lowest_cost" THEN <<cost, latency, 0 - success, id>>
        ELSE IF strat = "lowest_latency" THEN <<latency, cost, 0 - success, id>>
        ELSE <<0 - success, cost, latency, id>>

\* C16: under lowest_cost, lowest_latency and highest_success select_agent
\* returns the candidate that is best for the primary metric, ties broken by
\* the secondary metrics and last by the smallest agent id, so the choice
\* does not depend on the order in which the manifests were created.
C16_SelectBreaksTiesAsStated ==
    ( /\ last.op = "select_agent"
      /\ EffectiveStrategy \in {"lowest_cost", "lowest_latency", "highest_success"}
      /\ last.ret # None )
        => \A k \in 1..Len(CandidatesOfLast) :
               ~LexLess(RankKey(EffectiveStrategy, CandidatesOfLast[k]),
                        RankKey(EffectiveStrategy, ManifestOf(last.ret)))

Min(a, b) == IF a < b THEN a ELSE b

\* 40000 times 0.5*success - 0.25*min(cost, 1) - 0.25*min(latency/10000, 1),
\* a missing metric taking the default the code gives it
ClampedScore(manifest) ==
    LET cost == metric(manifest, "cost_rate", 100)
        latency == metric(manifest, "latency_ms", 1000)
        success == metric(manifest, "success_rate", 50)
    IN  200 * success - 100 * Min(cost, 100) - Min(latency, 10000)

\* C17: under best_value select_agent returns the candidate with the greatest
\* 0.5*success - 0.25*min(cost,1) - 0.25*min(latency/10000,1), the cost and
\* latency terms clamped at 1, ties going to the smallest agent id; in
\* particular M1{cost 0.2, latency 500, success 0.9} wins over
\* M2{cost 0.05, latency 5000, success 0.6}.
C17_BestValueMaximisesClampedScore ==
    ( /\ last.op = "select_agent"
      /\ EffectiveStrategy = "best_value"
      /\ last.ret # None )
        => \A k \in 1..Len(CandidatesOfLast) :
               LET m == CandidatesOfLast[k]
                   chosen == ManifestOf(last.ret)
               IN  \/ ClampedScore(m) < ClampedScore(chosen)
                   \/ /\ ClampedScore(m) = ClampedScore(chosen)
                      /\ IdRank(chosen.agent_id) <= IdRank(m.agent_id)

-----------------------------------------------------------------------------
(* Properties of the JSON-RPC handler (SpecRPC) *)

\* The entries of a list that carry an id
EntriesWithId(requests_data) == SelectSeq(requests_data, LAMBDA e : e.id # NoId)

C19_EmptyBatchIsInvalidRequest ==
    ( /\ last.op = "handle_batch"
      /\ last.id.is_list
      /\ last.id.requests = <<>> )
        => /\ Len(last.ret) = 1
           /\ last.ret[1].id = NoId
           /\ "error" \in DOMAIN last.ret[1]
           /\ last.ret[1].error.code = INVALID_REQUEST

\* C20: a tasks/status or tasks/cancel request for an unknown task id, and a
\* tasks/cancel on a completed, failed or cancelled task, are answered with a
\* JSON-RPC error of code -32000 whose data.kind is NotFound or InvalidState
\* (never code -32603), carrying the request's id, and the task store is
\* left unchanged.
C20_TaskErrorsAreServerErrors ==
    [][\A d \in RequestInputs :
          LET t == d.params.task_id
              unknown == t \notin DOMAIN task_store
          IN  ( /\ last'.op = "handle_request"
                /\ d.jsonrpc = "2.0"
                /\ d.id # NoId
                /\ d.method \in {"tasks/status", "tasks/cancel"}
                /\ DOMAIN d.params = {"task_id"}
                /\ unknown \/ ( /\ d.method = "tasks/cancel"
                                /\ task_store[t].status \in Terminal )
                /\ a2a_handle_request(d) )
                  => /\ task_store' = task_store
                     /\ Len(last'.ret) = 1
                     /\ last'.ret[1].id = d.id
                     /\ "error" \in DOMAIN last'.ret[1]
                     /\ last'.ret[1].error.code = SERVER_ERROR
                     /\ "data" \in DOMAIN last'.ret[1].error
                     /\ last'.ret[1].error.data.kind =
                            IF unknown THEN "NotFound" ELSE "InvalidState"]_vars

-----------------------------------------------------------------------------
(* Registry events *)

\* The agent events among the events, each as <<kind, agent identifier>>
AgentEvents(events) ==
    LET agent_events == SelectSeq(events, LAMBDA e :
            e.event_type \in {"agent.created", "agent.updated", "agent.deleted"})
    IN  [k \in 1..Len(agent_events) |->
            <<agent_events[k].event_type, agent_events[k].payload.agent_id>>]

\* The agent events recorded in the history followed by those whose emit is
\* scheduled, before and after a step
EventsBefore == AgentEvents(event_history \o ready)
EventsAfter == AgentEvents(event_history' \o ready')

\* C21: each successful register, update and unregister adds exactly one
\* agent.created, agent.updated or agent.deleted event carrying the agent's
\* identifier behind the events of the earlier mutations; a call that fails
\* on an unknown identifier adds none; and the scheduled events reach the
\* history of the event bus one by one in the order they were scheduled.
C21_OneEventPerMutationInOrder ==
    [][ /\ \A a \in RegistryAgents :
              (last'.op = "register" /\ register(a))
                  => EventsAfter = Append(EventsBefore, <<"agent.created", a.id>>)
        /\ \A a \in RegistryAgentIds, u \in UpdateInputs :
              (last'.op = "update" /\ update(a, u))
                  => EventsAfter = IF a \in DOMAIN agents
                                   THEN Append(EventsBefore, <<"agent.updated", a>>)
                                   ELSE EventsBefore
        /\ \A a \in RegistryAgentIds :
              (last'.op = "unregister" /\ unregister(a))
                  => EventsAfter = IF a \in DOMAIN agents
                                   THEN Append(EventsBefore, <<"agent.deleted", a>>)
                                   ELSE EventsBefore
        /\ run_scheduled_emit
              => /\ EventsAfter = EventsBefore
                 /\ event_history' = Append(event_history, Head(ready)) ]_vars

\* C21 witness: u1 was registered, updated and unregistered, an update of the
\* unknown u2 in between returned False, and the history holds the three
\* events of u1 in that order and nothing else
C21_Witness ==
    /\ AgentEvents(event_history) = << <<"agent.created", "u1">>,
                                       <<"agent.updated", "u1">>,
                                       <<"agent.deleted", "u1">> >>
    /\ ready = <<>>
    /\ last.op = "unregister"
    /\ last.ret = "True"

-----------------------------------------------------------------------------
(* Manifests and the registry *)

\* C22: unregistering an agent removes its manifest: when unregister returns
\* True no stored manifest names the agent any more, so that every stored
\* manifest belongs to a registered agent.
C22_UnregisterRemovesManifest ==
    [][ (last'.op = "unregister" /\ last'.ret = "True")
            => \A k \in 1..Len(manifests') : manifests'[k].agent_id # last'.id ]_vars

-----------------------------------------------------------------------------
(* Federated aggregation *)

\* The updates all have the shape of the first
SameShapes(updates) ==
    \A k \in 1..Len(updates) : shape(updates[k].q_table) = shape(updates[1].q_table)

\* The total of cell (i, j) over the first n updates
RECURSIVE CellTotal(_, _, _, _)
CellTotal(updates, n, i, j) ==
    IF n = 0 THEN 0
    ELSE CellTotal(updates, n - 1, i, j) + updates[n].q_table[i][j]

\* table is the element-wise mean of updates of one shape
IsElementwiseMean(table, updates) ==
    /\ shape(table) = shape(updates[1].q_table)
    /\ \A i \in 1..shape(table)[1], j \in 1..shape(table)[2] :
           table[i][j] * Len(updates) = CellTotal(updates, Len(updates), i, j)

MaxShape(updates) ==
    LET rows == {shape(updates[k].q_table)[1] : k \in 1..Len(updates)}
        cols == {shape(updates[k].q_table)[2] : k \in 1..Len(updates)}
    IN  <<CHOOSE r \in rows : \A x \in rows : x <= r,
          CHOOSE c \in cols : \A x \in cols : x <= c>>

\* Cell (i, j) of a table padded with zeros
PaddedCell(q_table, i, j) ==
    IF i <= shape(q_table)[1] /\ j <= shape(q_table)[2] THEN q_table[i][j] ELSE 0

\* The total of cell (i, j) over the first n updates, each padded with zeros
RECURSIVE PaddedTotal(_, _, _, _)
PaddedTotal(updates, n, i, j) ==
    IF n = 0 THEN 0
    ELSE PaddedTotal(updates, n - 1, i, j) + PaddedCell(updates[n].q_table, i, j)

\* C24: when the buffered updates have different shapes, aggregate_updates
\* returns a table whose shape is the per-dimension maximum of their shapes
\* and whose cells are the means of the updates padded with zeros to that
\* shape, so that no submitted cell is left out.
C24_AggregatePadsToMaxShape ==
    ( /\ last.op = "aggregate_updates"
      /\ Len(last.updates) >= 2
      /\ ~SameShapes(last.updates) )
        => /\ Len(last.ret) = 1
           /\ shape(last.ret[1]) = MaxShape(last.updates)
           /\ \A i \in 1..shape(last.ret[1])[1], j \in 1..shape(last.ret[1])[2] :
                  last.ret[1][i][j] * Len(last.updates)
                      = PaddedTotal(last.updates, Len(last.updates), i, j)

\* C25: the result of aggregate_updates does not depend on the order in which
\* the updates were buffered: for two buffered updates, of one shape or of
\* different shapes, it is what the two give in the other order.
C25_AggregateIsOrderIndependent ==
    ( /\ last.op = "aggregate_updates"
      /\ Len(last.updates) = 2 )
        => last.ret = <<federated_average(<<last.updates[2], last.updates[1]>>)>>

-----------------------------------------------------------------------------
(* Q-learning *)

\* Q(state, action) of an agent in the given tables: the cell of the two
\* indices, 0.0 where the agent, the state, the action or the cell is not there
QValue(tables, states, actions, agent_id, state, action) ==
    IF /\ agent_id \in DOMAIN tables
       /\ \E k \in 1..Len(states[agent_id]) : states[agent_id][k] = state
       /\ \E k \in 1..Len(actions[agent_id]) : actions[agent_id][k] = action
       /\ place(states[agent_id], state) <= shape(tables[agent_id])[1]
       /\ place(actions[agent_id], action) <= shape(tables[agent_id])[2]
    THEN tables[agent_id][place(states[agent_id], state)]
                         [place(actions[agent_id], action)]
    ELSE 0

\* The largest Q(state, a') over the actions a': the cells of the state's
\* row, and 0.0 for an action or a state that the table has no cell for yet
MaxQ(tables, states, actions, agent_id, state, action) ==
    LET has_row == /\ agent_id \in DOMAIN tables
                   /\ \E k \in 1..Len(states[agent_id]) : states[agent_id][k] = state
                   /\ place(states[agent_id], state) <= shape(tables[agent_id])[1]
        row == IF has_row THEN tables[agent_id][place(states[agent_id], state)]
               ELSE <<>>
        new_action == \/ ~has_row
                      \/ \A k \in 1..Len(actions[agent_id]) :
                             actions[agent_id][k] # action
                      \/ place(actions[agent_id], action) > Len(row)
        values == {row[j] : j \in 1..Len(row)} \cup (IF new_action THEN {0} ELSE {})
    IN  CHOOSE v \in values : \A w \in values : w <= v

\* w_r * reward - w_c * min(cost, 1) - w_l * min(latency / 10000, 1), a term
\* left out when its argument is not supplied
ShapedReward(args) ==
    (args.reward \div 10) * 5
    - (IF args.cost = Unsupplied THEN 0
       ELSE ((IF args.cost > One THEN One ELSE args.cost) \div 10) * 3)
    - (IF args.latency = Unsupplied THEN 0
       ELSE ((IF args.latency > 10000 THEN One
              ELSE args.latency * (One \div 10000)) \div 10) * 2)

\* Q + alpha * (shaped reward + gamma * max Q(s', .) - Q) on the tables
\* before the call
ExpectedQ(agent_id, args) ==
    LET q == QValue(q_tables, state_spaces, action_spaces, agent_id,
                    args.state, args.action)
        max_next == MaxQ(q_tables, state_spaces, action_spaces, agent_id,
                         args.next_state, args.action)
    IN  q + (ShapedReward(args) + (max_next \div 10) * 9 - q) \div 10

\* C26: update_q_value sets Q(s, a) to Q(s, a) + alpha * (shaped reward +
\* gamma * max Q(s', .) - Q(s, a)) and returns it, changes no other cell of
\* the agent's table and no table of another agent; with the defaults, an
\* agent without a table, reward 1.0, cost 0.5 and latency 2000 the new value
\* is 0.031.
C26_UpdateSetsOneCellByFormula ==
    [][ \A a \in QAgentIds, args \in QUpdateInputs :
          (last'.op = "update_q_value" /\ update_q_value(a, args))
              => /\ last'.ret = <<ExpectedQ(a, args)>>
                 /\ QValue(q_tables', state_spaces', action_spaces', a,
                           args.state, args.action) = ExpectedQ(a, args)
                 /\ \A s \in QStates, x \in QActions :
                        <<s, x>> # <<args.state, args.action>>
                            => QValue(q_tables', state_spaces', action_spaces', a, s, x)
                               = QValue(q_tables, state_spaces, action_spaces, a, s, x)
                 /\ \A b \in QAgentIds \ {a} :
                        /\ b \in DOMAIN q_tables' <=> b \in DOMAIN q_tables
                        /\ b \in DOMAIN q_tables => q_tables'[b] = q_tables[b]
                 /\ ( /\ a \notin DOMAIN q_tables
                      /\ args.reward = One
                      /\ args.cost = One \div 2
                      /\ args.latency = 2000 )
                        => last'.ret = <<31000000>> ]_vars

-----------------------------------------------------------------------------
(* Message round trip *)

\* C27: Message.from_jsonrpc(m.to_jsonrpc()) has the sender_id, receiver_id,
\* content, type and priority of m, and the metadata entries of m apart from
\* the reserved key method.
C27_JsonRpcRoundTrip ==
    last.op = "from_jsonrpc"
        => /\ last.ret.sender_id = last.message.sender_id
           /\ last.ret.receiver_id = last.message.receiver_id
           /\ last.ret.content = last.message.content
           /\ last.ret.message_type = last.message.message_type
           /\ last.ret.priority = last.message.priority
           /\ DOMAIN last.ret.metadata \ {"method"}
                  = DOMAIN last.message.metadata \ {"method"}
           /\ \A k \in DOMAIN last.message.metadata \ {"method"} :
                  last.ret.metadata[k] = last.message.metadata[k]

\* C27 witness: an urgent task message with a method and another metadata
\* entry came back as a new message with the same entry
C27_Witness ==
    /\ last.op = "from_jsonrpc"
    /\ last.message.message_type = "task"
    /\ last.message.priority = 4
    /\ last.message.sender_id = "s1"
    /\ last.message.metadata = [method |-> "tasks/send", trace |-> "t1"]
    /\ last.ret.metadata.trace = "t1"
    /\ last.ret.priority = 4
    /\ last.ret.id # last.message.id

-----------------------------------------------------------------------------
(* HITL switched off, event order, no deadline *)

\* The HITL events in the history
HITLEvents ==
    SelectSeq(event_history, LAMBDA e :
        e.event_type \in {"hitl.approval_required", "hitl.approved", "hitl.rejected"})

\* C28: with HITL_ENABLED false process_message returns every message at
\* once and unchanged: no call is gated, no approval request is created and
\* no HITL event is emitted, also for a message flagged requires_approval.
C28_DisabledIsPassThrough ==
    ~hitl_config.HITL_ENABLED
        => /\ calls = <<>>
           /\ DOMAIN queue = {}
           /\ HITLEvents = <<>>

\* The places in the history of the decision events of a request
DecisionEvents(request_id) ==
    EventsOf("hitl.approved", request_id) \cup EventsOf("hitl.rejected", request_id)

\* C29: for every approval request the hitl.approval_required event stands in
\* the event history before any hitl.approved or hitl.rejected event of the
\* same request, and at most one decision event is ever recorded for it.
C29_RequiredFirstOneDecision ==
    \A request_id \in 1..uuids :
        /\ Cardinality(DecisionEvents(request_id)) <= 1
        /\ \A k \in DecisionEvents(request_id) :
               \E j \in EventsOf("hitl.approval_required", request_id) : j < k

\* A request decided by an operator whose waiter has recorded the decision
C29_Witness ==
    \E c \in DOMAIN calls :
        /\ calls[c].pc = "done"
        /\ queue[calls[c].request_id].approved_by \in Approvers
        /\ DecisionEvents(calls[c].request_id) # {}

\* C30: with HITL_TIMEOUT_SECONDS = 0 the approval request of a gated message
\* has no deadline, and while nobody has approved or rejected it the request
\* is pending and its process_message call has not returned.
C30_NoDeadlineWaitsForever ==
    hitl_config.HITL_TIMEOUT_SECONDS = 0
        => \A c \in DOMAIN calls :
               LET request == queue[calls[c].request_id]
               IN  /\ request.timeout_at = NoTime
                   /\ (request.approved_by = None /\ request.metadata.rejected_by = None)
                         => /\ request.status = "pending"
                            /\ calls[c].pc = "sleeping"
                            /\ calls[c].result = <<>>

\* An undecided request without deadline whose waiter has polled up to the
\* last instant of the clock, after a sweep
C30_Witness ==
    /\ hitl_config.HITL_TIMEOUT_SECONDS = 0
    /\ now = MaxTime
    /\ last.op = "cleanup_expired"
    /\ \E c \in DOMAIN calls :
           /\ calls[c].start_time = 0
           /\ calls[c].wake_at = MaxTime + 1
           /\ queue[calls[c].request_id].status = "pending"

-----------------------------------------------------------------------------
(* Registry cap and indexes *)

\* C31: the number of registered agents never exceeds MAX_AGENTS (a register
\* call on a full registry fails and leaves the registry unchanged).
C31_AtMostMaxAgents ==
    Cardinality(DOMAIN agents) <= MAX_AGENTS

-----------------------------------------------------------------------------
(* Q-matrix growth *)

\* The cells of a table
Cells(q_table) ==
    { <<i, j>> : i \in 1..shape(q_table)[1], j \in 1..shape(q_table)[2] }

\* The new table covers the old one and differs from it in at most one cell
GrownFrom(old_table, new_table) ==
    /\ shape(new_table)[1] >= shape(old_table)[1]
    /\ shape(new_table)[2] >= shape(old_table)[2]
    /\ Cardinality({ c \in Cells(old_table) :
                       new_table[c[1]][c[2]] # old_table[c[1]][c[2]] }) <= 1

\* C32: every update_q_value call succeeds, whatever the numbers of distinct
\* states and actions; the Q-matrix of an agent shrinks in neither dimension
\* and every cell other than the one the call writes keeps its value, also
\* across a resize.
C32_UpdateSucceedsAndKeepsCells ==
    [][ (q_updates' # q_updates /\ last'.op = "update_q_value")
            => /\ last'.raised = None
               /\ \A a \in DOMAIN q_tables : GrownFrom(q_tables[a], q_tables'[a]) ]_vars

\* C33: after any sequence of update_q_value, get_q_value, select_action and
\* get_best_action calls the Q-matrix of every agent has at least as many
\* rows as its state vocabulary has entries and at least as many columns as
\* its action vocabulary has entries.
C33_MatrixCoversVocabularies ==
    \A a \in DOMAIN q_tables :
        /\ shape(q_tables[a])[1] >= Len(state_spaces[a])
        /\ shape(q_tables[a])[2] >= Len(action_spaces[a])

\* The DIDs an agent can carry
IndexDids == {"did:u2", "did:x"}

\* C34: after any sequence of register, update and unregister the indexes
\* agree with the records: get(k).id = k for every registered key k;
\* get_by_did(d) returns an agent exactly when a registered agent has the
\* DID d, and then that agent; no two registered agents share a DID.
C34_IndexesAgreeWithRecords ==
    /\ \A k \in DOMAIN agents : agents[k].id = k
    /\ \A d \in IndexDids :
           /\ d \in DOMAIN agents_by_did <=> \E k \in DOMAIN agents : agents[k].did = d
           /\ d \in DOMAIN agents_by_did
                 => /\ agents_by_did[d].did = d
                    /\ \E k \in DOMAIN agents : agents[k] = agents_by_did[d]
    /\ \A k1, k2 \in DOMAIN agents :
           (k1 # k2 /\ agents[k1].did # None) => agents[k1].did # agents[k2].did

-----------------------------------------------------------------------------
(* Undelivered tasks *)

\* C35: for a handler built with a router, the task tasks/send has stored is
\* pending only if the router delivered the message to a registered agent;
\* when the target agent is not registered (route returns False) the task is
\* failed.
C35_UndispatchedTaskIsFailed ==
    [][\A a \in AgentIds, i \in SendInputs :
          (last'.op = "tasks/send" /\ tasks_send(a, i[1], i[2])
             /\ message_router # "none") =>
              LET status == task_store'[last'.ret.task_id].status
              IN  /\ status = "pending"
                        => message_router = "MessageRouter" /\ a \in DOMAIN agents
                  /\ (message_router = "MessageRouter" /\ a \notin DOMAIN agents)
                        => status = "failed"]_vars

-----------------------------------------------------------------------------
(* Event bus: order, ring, waiting, subscribers *)

\* The ids of the messages to a receiver whose message.sent event stands in
\* the history, in the order of the history
SentTo(receiver_id) ==
    LET sent == SelectSeq(event_history, LAMBDA e :
                    e.event_type = "message.sent" /\ e.payload.receiver_id = receiver_id)
    IN  [k \in 1..Len(sent) |-> sent[k].payload.message_id]

\* The ids of the messages the router addressed to a receiver, in the order
\* in which it set receiver_id
AddressedTo(receiver_id) ==
    LET set == SelectSeq(addressed, LAMBDA m : m.receiver_id = receiver_id)
    IN  [k \in 1..Len(set) |-> set[k].message_id]

\* C36: with any number of route calls in flight, also ones suspended inside
\* event subscribers, the message.sent events for a receiver stand in the
\* event history in the order in which the router set receiver_id on the
\* messages.
C36_SentInAddressingOrder ==
    \A a \in DispatchAgentIds : SentTo(a) = AddressedTo(a)

\* Two messages addressed to one receiver while the route call of the first
\* is still suspended in a subscriber
C36_Witness ==
    /\ Len(addressed) >= 2
    /\ addressed[1].receiver_id = addressed[2].receiver_id
    /\ emits[1].pc = "waiting"
    /\ emits[1].running # {}

\* C37: after any sequence of emit and emit_sync calls the event history
\* holds at most 1000 events, and they are the most recently emitted events
\* in the order of their emission.
C37_HistoryIsLastThousand ==
    /\ Len(event_history) <= 1000
    /\ Len(event_history) = IF Len(emits) < 1000 THEN Len(emits) ELSE 1000
    /\ \A k \in 1..Len(event_history) :
           event_history[k] = emits[Len(emits) - Len(event_history) + k].event

\* More than 1000 events were emitted, by emit and by emit_sync, and the
\* oldest is gone from the history
C37_Witness ==
    /\ Len(emits) > 1000
    /\ last.op = "emit_sync"
    /\ Len(event_history) = 1000
    /\ event_history[1] # emits[1].event

\* C38: emit completes without waiting for asynchronous subscribers: while a
\* subscriber of an event is suspended, or has not run yet, the emit call
\* and the route call that made it have already returned.
C38_EmitDoesNotWaitForSubscribers ==
    \A k \in DOMAIN emits :
        (emits[k].pending # {} \/ emits[k].running # {}) => emits[k].pc = "returned"

\* How many times the body of a callback ran for an event
TimesReceived(callback, event) ==
    Cardinality({ k \in 1..Len(received) :
                    received[k] = [callback |-> callback, event |-> event] })

\* C39: a callback subscribed to an event type is invoked exactly once for
\* each event of that type emitted by emit or emit_sync, however often it
\* was subscribed, and never when it is not subscribed to the type of the
\* event (another type, or after unsubscribe); a subscriber that raises
\* neither keeps the other subscribers from the event nor the event from
\* the history.
C39_SubscribersCalledExactlyOnce ==
    /\ \A t \in DOMAIN subscribers :
           \A i, j \in 1..Len(subscribers[t]) :
               subscribers[t][i] = subscribers[t][j] => i = j
    /\ \A k \in DOMAIN emits :
           /\ event_history[k] = emits[k].event
           /\ \A c \in Callbacks :
                  IF contains(emits[k].subscribed, c)
                  THEN /\ TimesReceived(c, emits[k].event) <= 1
                       /\ emits[k].pc = "returned"
                             => TimesReceived(c, emits[k].event) = 1
                  ELSE TimesReceived(c, emits[k].event) = 0

-----------------------------------------------------------------------------
(* Concurrent approval waits *)

\* C40: gated messages that wait concurrently have distinct request ids; a
\* request changes only by a decision on that very request, and a waiter is
\* released only by the decision on its own request, with its own message
\* when that request was approved and with None when it was rejected.
C40_DecisionReleasesOwnWaiterOnly ==
    [][ /\ \A c1, c2 \in DOMAIN calls' :
              calls'[c1].request_id = calls'[c2].request_id => c1 = c2
        /\ \A r \in DOMAIN queue :
              queue'[r] # queue[r]
                  => last'.op \in {"approve", "reject"} /\ last'.id = r
        /\ \A c \in DOMAIN calls :
              (calls[c].pc = "sleeping" /\ calls'[c].pc = "done")
                  => /\ queue[calls[c].request_id].status \in {"approved", "rejected"}
                     /\ calls'[c].result =
                            IF queue[calls[c].request_id].status = "approved"
                            THEN <<calls[c].message>> ELSE <<>>
        /\ \A c \in DOMAIN calls :
              calls[c].pc = "done" => calls'[c] = calls[c] ]_vars

\* Two waiters: the first was approved and has returned its message, the
\* second is still waiting on its pending request
C40_Witness ==
    /\ Len(calls) = 2
    /\ calls[1].pc = "done"
    /\ calls[1].result = <<calls[1].message>>
    /\ calls[2].pc = "sleeping"
    /\ calls[2].start_time <= calls[1].wake_at
    /\ queue[calls[2].request_id].status = "pending"

=============================================================================
